---- MODULE Spec2Model ----
(***************************************************************************)
(* Secret Santa coordinator (src/src/App.tsx): the group documents held    *)
(* by the Firestore store, the browser sessions that subscribe to them,    *)
(* and the create / join / draw / delete handlers with their awaits.       *)
(*                                                                         *)
(* Conventions.  A text the code scans (trims) is a sequence of            *)
(* one-character strings; a string the code only copies is a string.  A    *)
(* nullable value is a sequence of length at most one: <<>> is             *)
(* null/undefined and <<v>> is the value v.  A Record<string, T> is a      *)
(* function whose domain is its key set.                                   *)
(***************************************************************************)
EXTENDS Integers, Sequences, FiniteSets, Bags, TLC

\* ------------------------------------------------------------------ bounds
\* Largest number of group documents ever created.
MaxGroups == 1
\* Largest value of the server clock (one tick per server timestamp).
MaxClock == 2
\* Largest number of schema lookups one session awaits at a time.
MaxLookups == 2

\* ------------------------------------------------------- the environment
\* Browser sessions (tabs or devices), each running one App component.
Clients == {"c1", "c2", "c3"}

\* Firebase Auth users: uid and the display attributes the code reads.
Users == {"u1", "u2", "u3", "u4"}

UserRecord(u) ==
    CASE u = "u1" -> [uid |-> "u1", displayName |-> <<"Ann">>, email |-> <<"ann@x">>,
                      phoneNumber |-> <<>>, photoURL |-> <<"ann.png">>]
      [] u = "u2" -> [uid |-> "u2", displayName |-> <<"">>, email |-> <<"bob@x">>,
                      phoneNumber |-> <<>>, photoURL |-> <<>>]
      [] OTHER    -> [uid |-> u, displayName |-> <<>>, email |-> <<>>,
                      phoneNumber |-> <<>>, photoURL |-> <<>>]

\* trimmedCode.length < 20: the shortest code loadGroupFields looks up, the
\* length of the ids the store generates.
MinCodeLength == 20

\* An id of that length.
AutoId(ch) == <<ch>> \o [i \in 1..(MinCodeLength - 1) |-> "0"]

\* Document ids the store hands out, in the order it hands them out.
DocIds == <<AutoId("g"), AutoId("h"), AutoId("k")>>

DocIdSet == {DocIds[i] : i \in 1..Len(DocIds)}

\* Custom-field schemas a creator can author in the create form.
Field1 == [id |-> "f1", label |-> "Size"]
Field2 == [id |-> "f2", label |-> "Wish"]
FieldLists == {<<>>, <<Field1>>, <<Field1, Field2>>}

\* Texts a user can type into one response input.
Texts == {<<>>, <<" ">>, <<" ", "a">>}

\* Texts a user can type into the join-code input.
CodeInputs ==
    {<<>>, <<" ">>, <<"x">>} \cup
    UNION {{DocIds[i], <<" ">> \o DocIds[i] \o <<" ">>} : i \in 1..MaxGroups}

\* ------------------------------------------------------------ JavaScript
IsSpace(ch) == ch = " "

RECURSIVE TrimStart(_)
TrimStart(s) == IF s # <<>> /\ IsSpace(Head(s)) THEN TrimStart(Tail(s)) ELSE s

RECURSIVE TrimEnd(_)
TrimEnd(s) ==
    IF s # <<>> /\ IsSpace(s[Len(s)]) THEN TrimEnd(SubSeq(s, 1, Len(s) - 1)) ELSE s

\* trim that strips nothing.
TrimNothing(s) == s

\* String.prototype.trim
Trim(s) == TrimEnd(TrimStart(s))

\* includes that looks at the first element only.
IncludesFirst(arr, x) == arr # <<>> /\ arr[1] = x

\* Array.prototype.includes
Includes(arr, x) == \E i \in 1..Len(arr) : arr[i] = x

\* a || b on nullable strings: the empty string and null are both falsy.
OrElse(a, b) == IF a # <<>> /\ a[1] # "" THEN a ELSE b

\* obj with obj[k] = v set (a new key or an overwritten one).
Put(obj, k, v) == [x \in DOMAIN obj \cup {k} |-> IF x = k THEN v ELSE obj[x]]

EmptyObj == [x \in {} |-> <<>>]

\* ------------------------------------------------------- pure functions
\* getDisplayName: the first truthy one of displayName, email, phoneNumber.
getDisplayName(usr) ==
    OrElse(usr.displayName, OrElse(usr.email, OrElse(usr.phoneNumber, <<"Anonymous gifter">>)))[1]

\* The member profile written at create and at join.
ProfileOf(usr) == [displayName |-> getDisplayName(usr), photoURL |-> usr.photoURL]

\* The outcomes of the Math.random() calls of one shuffle of n items: for
\* each i in n-1 .. 1 an index j = floor(random * (i + 1)) in 0 .. i.
RandomDraws(n) == {r \in [1..(n - 1) -> 0..(n - 1)] : \A i \in 1..(n - 1) : r[i] <= i}

\* [copy[i], copy[j]] = [copy[j], copy[i]] on a 0-indexed array.
Swap(copy, i, j) == [copy EXCEPT ![i + 1] = copy[j + 1], ![j + 1] = copy[i + 1]]

RECURSIVE ShuffleFrom(_, _, _)
ShuffleFrom(copy, i, rnd) ==
    IF i > 0 THEN ShuffleFrom(Swap(copy, i, rnd[i]), i - 1, rnd) ELSE copy

\* shuffle: Fisher-Yates from the last index down to 1.
shuffle(items, rnd) == ShuffleFrom(items, Len(items) - 1, rnd)

\* The assignment record of one giver (handleRunDraw's loop body).
AssignmentTo(group, receiverId) ==
    [recipientId |-> receiverId,
     recipientName |-> IF receiverId \in DOMAIN group.members
                       THEN group.members[receiverId].displayName
                       ELSE "Mystery Santa",
     recipientPhotoURL |-> IF receiverId \in DOMAIN group.members
                           THEN group.members[receiverId].photoURL
                           ELSE <<>>]

\* The receiver index without the step to the next position.
ReceiverIndexSame(index, n) == index % n

\* (index + 1) % shuffledMembers.length
ReceiverIndex(index, n) == (index + 1) % n

RECURSIVE AssignLoop(_, _, _, _)
AssignLoop(group, shuffledMembers, index, assignments) ==
    IF index < Len(shuffledMembers)
    THEN AssignLoop(group, shuffledMembers, index + 1,
             Put(assignments, shuffledMembers[index + 1],
                 AssignmentTo(group,
                     shuffledMembers[ReceiverIndex(index, Len(shuffledMembers)) + 1])))
    ELSE assignments

\* handleRunDraw's assignments: the giver at shuffled position index gives to
\* the member at position (index + 1) mod n.
BuildAssignments(group, shuffledMembers) == AssignLoop(group, shuffledMembers, 0, EmptyObj)

\* arrayUnion as a blind append.
arrayUnionAppend(arr, x) == Append(arr, x)

\* Firestore arrayUnion: append the element unless the array has it.
arrayUnion(arr, x) == IF Includes(arr, x) THEN arr ELSE Append(arr, x)

\* data.customFields ?? []
FieldsOf(data) == IF data.customFields = <<>> THEN <<>> ELSE data.customFields[1]

\* The blank test without the trim.
IsMissingNoTrim(joinResponses, field) ==
    \/ field.id \notin DOMAIN joinResponses
    \/ joinResponses[field.id] = <<>>

\* !joinResponses[field.id] || !joinResponses[field.id].trim()
IsMissing(joinResponses, field) ==
    \/ field.id \notin DOMAIN joinResponses
    \/ joinResponses[field.id] = <<>>
    \/ Trim(joinResponses[field.id]) = <<>>

\* handleJoinGroup's missingFields: the schema's fields without an answer.
MissingFields(customFields, joinResponses) ==
    LET Missing(field) == IsMissing(joinResponses, field)
    IN  SelectSeq(customFields, Missing)

\* missingFields.map(f => f.label)
Labels(fields) == [i \in 1..Len(fields) |-> fields[i].label]

\* --------------------------------------------------------- the documents
\* No document at an id.
NoDoc == [exists |-> FALSE]

\* The fields handleCreateGroup passes to addDoc, createdAt resolved to now.
NewGroupDoc(usr, trimmedName, fields, now) ==
    [exists |-> TRUE,
     name |-> trimmedName,
     ownerId |-> usr.uid,
     ownerName |-> getDisplayName(usr),
     ownerPhotoURL |-> usr.photoURL,
     memberIds |-> <<usr.uid>>,
     members |-> Put(EmptyObj, usr.uid, ProfileOf(usr)),
     assignments |-> <<>>,
     customFields |-> IF Len(fields) > 0 THEN <<fields>> ELSE <<>>,
     memberResponses |-> EmptyObj,
     createdAt |-> <<now>>,
     drawRunAt |-> <<>>]

\* The join's write with the two maps replaced whole instead of updated at
\* the member's key.
JoinUpdateWholeMaps(data, usr, joinResponses) ==
    [data EXCEPT !.memberIds = arrayUnion(@, usr.uid),
                 !.members = Put(EmptyObj, usr.uid, ProfileOf(usr)),
                 !.memberResponses = Put(EmptyObj, usr.uid, joinResponses)]

\* The join's write without the profile.
JoinUpdateNoProfile(data, usr, joinResponses) ==
    [data EXCEPT !.memberIds = arrayUnion(@, usr.uid),
                 !.memberResponses = Put(@, usr.uid, joinResponses)]

\* handleJoinGroup's updateDoc: three field updates applied as one write.
JoinUpdate(data, usr, joinResponses) ==
    [data EXCEPT !.memberIds = arrayUnion(@, usr.uid),
                 !.members = Put(@, usr.uid, ProfileOf(usr)),
                 !.memberResponses = Put(@, usr.uid, joinResponses)]

\* The draw's write merged into the stored map: a giver who has an entry
\* keeps it.
DrawUpdateKeepsOld(data, assignments, now) ==
    [data EXCEPT !.assignments =
                     IF @ = <<>> THEN <<assignments>>
                     ELSE <<[g \in DOMAIN @[1] \cup DOMAIN assignments |->
                               IF g \in DOMAIN @[1] THEN @[1][g] ELSE assignments[g]]>>,
                 !.drawRunAt = <<now>>]

\* The draw written as a whole document built without the members' answers.
DrawUpdateDropsResponses(data, assignments, now) ==
    [data EXCEPT !.assignments = <<assignments>>, !.drawRunAt = <<now>>,
                 !.memberResponses = EmptyObj]

\* handleRunDraw's updateDoc: assignments and drawRunAt replaced as one write.
DrawUpdate(data, assignments, now) ==
    [data EXCEPT !.assignments = <<assignments>>, !.drawRunAt = <<now>>]

\* The Group a snapshot callback builds from one document.
GroupOf(id, data) ==
    [id |-> id,
     name |-> data.name,
     ownerId |-> data.ownerId,
     ownerName |-> data.ownerName,
     ownerPhotoURL |-> data.ownerPhotoURL,
     memberIds |-> data.memberIds,
     members |-> data.members,
     assignments |-> data.assignments,
     customFields |-> FieldsOf(data),
     memberResponses |-> data.memberResponses,
     createdAt |-> data.createdAt,
     drawRunAt |-> data.drawRunAt]

\* A missing createdAt read as the latest time instead of 0.
MillisNullLatest(group) ==
    IF group.createdAt = <<>> THEN MaxClock + 1 ELSE group.createdAt[1]

\* a.createdAt?.toMillis?.() ?? 0
Millis(group) == IF group.createdAt = <<>> THEN 0 ELSE group.createdAt[1]

\* Array.prototype.sort with (a, b) => bTime - aTime: a stable insertion of
\* each group after the groups that are not older than it.
RECURSIVE SortByCreatedDesc(_)
SortByCreatedDesc(list) ==
    IF list = <<>> THEN <<>>
    ELSE LET rest == SortByCreatedDesc(SubSeq(list, 1, Len(list) - 1))
             last == list[Len(list)]
             NotOlder(g) == Millis(g) >= Millis(last)
             Older(g) == Millis(g) < Millis(last)
         IN  SelectSeq(rest, NotOlder) \o <<last>> \o SelectSeq(rest, Older)

\* The documents a subscription of uid delivers, sorted as the callback
\* sorts them: those whose memberIds contain uid (array-contains).
RECURSIVE MatchingFrom(_, _, _)
MatchingFrom(store, uid, k) ==
    IF k > Len(DocIds) THEN <<>>
    ELSE (IF store[DocIds[k]].exists /\ Includes(store[DocIds[k]].memberIds, uid)
          THEN <<GroupOf(DocIds[k], store[DocIds[k]])>>
          ELSE <<>>) \o MatchingFrom(store, uid, k + 1)

NextGroups(store, uid) == SortByCreatedDesc(MatchingFrom(store, uid, 1))

\* No selection effect: the selected id is left as it is.
RepairSelectionNever(list, selected) == selected

\* The selection effect: keep a selected id that is in the list, otherwise
\* fall back to the first group or to null.
RepairSelection(list, selected) ==
    IF selected # <<>> /\ \E i \in 1..Len(list) : list[i].id = selected[1]
    THEN selected
    ELSE IF list # <<>> THEN <<list[1].id>> ELSE <<>>

\* ------------------------------------------------------------- messages
MsgNameFirst == <<"Give your group a name first.">>
MsgCreateFailed == <<"Unable to create that group. Please try again.">>
MsgCreated == <<"Group created! Share the join code with your Santas.">>
MsgEnterCode == <<"Enter a join code.">>
MsgNotFound == <<"No group found with that code.">>
MsgAlreadyMember == <<"You are already part of that group.">>
MsgFillOut == <<"Please fill out all required fields: ">>
MsgJoinFailed == <<"Could not join that group. Please double-check the code.">>
MsgJoined == <<"Welcome aboard! You have joined the group.">>
MsgTwoMembers == <<"You need at least two members to run a draw.">>
MsgDrawFailed == <<"Something went wrong running the draw. Please try again.">>
MsgDrawn == <<"Draw completed! Everyone now has someone to surprise.">>
MsgDeleteFailed == <<"Unable to delete the group. Please try again.">>
MsgGroupsFailed == <<"Unable to load your groups right now.">>

\* ---------------------------------------------------------------- state
VARIABLES
    db,                 \* the groups collection: document id -> document
    clock,              \* the server clock behind serverTimestamp()
    nextDoc,            \* how many document ids the store has handed out
    ignoreUndefinedProperties,  \* the Firestore setting of ./firebase
    user,               \* per client: the signed-in user's uid, or null
    listeners,          \* per client: the uids of its active groups subscriptions
    groupsError,        \* per client: the message of a failed subscription, or null
    joinForm,           \* per client: joinCode, joinGroupFields and joinResponses
    lookups,            \* per client: the codes of loadGroupFields' awaited getDocs
    groups,             \* per client: the list the last snapshot delivered
    selectedGroupId,
    isCreatingGroup, createError, createSuccess,
    isJoining, joinError, joinSuccess,
    isRunningDraw, drawError, drawSuccess,
    isDeletingGroup, deleteError,
    createOp, joinOp, drawOp, deleteOp,  \* per client: the awaited store call
    lastCall            \* the handler call the latest step made (the session,
                        \* the handler, its inputs and the path it took), if any

storeVars == <<db, clock, nextDoc, ignoreUndefinedProperties>>
authVars == <<user, listeners>>
feedVars == <<groupsError>>
formVars == <<joinForm, lookups>>
\* The identity, the subscription's error and the join form: what most steps
\* leave alone.
sideVars == <<authVars, feedVars, formVars>>
viewVars == <<groups, selectedGroupId, drawError, drawSuccess, deleteError>>
createVars == <<isCreatingGroup, createError, createSuccess, createOp>>
joinVars == <<isJoining, joinError, joinSuccess, joinOp>>
drawVars == <<isRunningDraw, drawOp>>
deleteVars == <<isDeletingGroup, deleteOp>>
vars == <<storeVars, sideVars, viewVars, createVars, joinVars, drawVars, deleteVars, lastCall>>

Idle == [stage |-> "idle"]
\* useState(''), useState([]), useState({}) of the join form.
EmptyForm == [joinCode |-> <<>>, joinGroupFields |-> <<>>, joinResponses |-> EmptyObj]
NoCall == [handler |-> "none"]
Call(c, handler, arg, path) ==
    [handler |-> handler, client |-> c, arg |-> arg, path |-> path]

\* getDoc / what a write finds at an id.
Lookup(store, id) == IF id \in DOMAIN store THEN store[id] ELSE NoDoc

\* The render without the message-clearing effect.
RenderKeepsMessages(c, list, selected, dErr, dSucc, delErr) ==
    /\ groups' = [groups EXCEPT ![c] = list]
    /\ selectedGroupId' = [selectedGroupId EXCEPT ![c] = RepairSelection(list, selected)]
    /\ drawError' = [drawError EXCEPT ![c] = dErr]
    /\ drawSuccess' = [drawSuccess EXCEPT ![c] = dSucc]
    /\ deleteError' = [deleteError EXCEPT ![c] = delErr]

\* One render after a handler or callback set the list and the selection:
\* the selection effect repairs the selection, and the message-clearing
\* effect runs when the selected id changed in either of the two renders.
Render(c, list, selected, dErr, dSucc, delErr) ==
    LET repaired == RepairSelection(list, selected)
        changed == selected # selectedGroupId[c] \/ repaired # selected
    IN  /\ groups' = [groups EXCEPT ![c] = list]
        /\ selectedGroupId' = [selectedGroupId EXCEPT ![c] = repaired]
        /\ drawError' = [drawError EXCEPT ![c] = IF changed THEN <<>> ELSE dErr]
        /\ drawSuccess' = [drawSuccess EXCEPT ![c] = IF changed THEN <<>> ELSE dSucc]
        /\ deleteError' = [deleteError EXCEPT ![c] = IF changed THEN <<>> ELSE delErr]

TypeOK ==
    /\ DOMAIN db = DocIdSet
    /\ clock \in 0..MaxClock
    /\ nextDoc \in 0..MaxGroups
    /\ ignoreUndefinedProperties \in BOOLEAN
    /\ \A c \in Clients :
        /\ user[c] \in {<<>>} \cup {<<u>> : u \in Users}
        /\ listeners[c] \subseteq Users
        /\ groupsError[c] \in {<<>>, MsgGroupsFailed}
        /\ DOMAIN joinForm[c].joinResponses \subseteq {Field1.id, Field2.id}
        /\ IsABag(lookups[c]) /\ BagCardinality(lookups[c]) <= MaxLookups
        /\ selectedGroupId[c] \in {<<>>} \cup {<<d>> : d \in DocIdSet}
        /\ isCreatingGroup[c] \in BOOLEAN /\ isJoining[c] \in BOOLEAN
        /\ isRunningDraw[c] \in BOOLEAN /\ isDeletingGroup[c] \in BOOLEAN
        /\ createOp[c].stage \in {"idle", "write", "ack"}
        /\ joinOp[c].stage \in {"idle", "write", "ack"}
        /\ drawOp[c].stage \in {"idle", "write", "ack"}
        /\ deleteOp[c].stage \in {"idle", "write", "ack"}

\* The initial values of the useState calls of the handlers' state.
InitHandlers ==
    /\ isCreatingGroup = [c \in Clients |-> FALSE]
    /\ createError = [c \in Clients |-> <<>>]
    /\ createSuccess = [c \in Clients |-> <<>>]
    /\ isJoining = [c \in Clients |-> FALSE]
    /\ joinError = [c \in Clients |-> <<>>]
    /\ joinSuccess = [c \in Clients |-> <<>>]
    /\ isRunningDraw = [c \in Clients |-> FALSE]
    /\ drawError = [c \in Clients |-> <<>>]
    /\ drawSuccess = [c \in Clients |-> <<>>]
    /\ isDeletingGroup = [c \in Clients |-> FALSE]
    /\ deleteError = [c \in Clients |-> <<>>]
    /\ createOp = [c \in Clients |-> Idle]
    /\ joinOp = [c \in Clients |-> Idle]
    /\ drawOp = [c \in Clients |-> Idle]
    /\ deleteOp = [c \in Clients |-> Idle]
    /\ groupsError = [c \in Clients |-> <<>>]
    /\ joinForm = [c \in Clients |-> EmptyForm]
    /\ lookups = [c \in Clients |-> EmptyBag]
    /\ lastCall = NoCall

\* Every session with an empty list and nothing selected.
InitClients ==
    /\ groups = [c \in Clients |-> <<>>]
    /\ selectedGroupId = [c \in Clients |-> <<>>]
    /\ InitHandlers

InitStore ==
    /\ db = [d \in DocIdSet |-> NoDoc]
    /\ clock = 0
    /\ nextDoc = 0

\* After construction and sign-in: an empty collection, every session signed
\* in to an account of its own.
OwnAccount(c) == CASE c = "c1" -> "u1" [] c = "c2" -> "u2" [] OTHER -> "u3"

Init ==
    /\ InitStore
    /\ ignoreUndefinedProperties = FALSE
    /\ InitClients
    /\ user = [c \in Clients |-> <<OwnAccount(c)>>]
    /\ listeners = [c \in Clients |-> {user[c][1]}]

\* ---------------------------------------------------------- the identity
\* The subscription effect without its cleanup: the previous subscription
\* is left open.
AuthChangedNoCleanup(c, currentUser) ==
    /\ currentUser # user[c]
    /\ user' = [user EXCEPT ![c] = currentUser]
    /\ listeners' = [listeners EXCEPT ![c] =
           IF currentUser = <<>> THEN @ ELSE @ \cup {currentUser[1]}]
    /\ IF currentUser = <<>>
       THEN Render(c, <<>>, <<>>, drawError[c], drawSuccess[c], deleteError[c])
       ELSE UNCHANGED viewVars
    /\ lastCall' = NoCall
    /\ UNCHANGED <<storeVars, feedVars, formVars, createVars, joinVars, drawVars,
                   deleteVars>>

\* onAuthStateChanged's callback, setUser(currentUser), and the subscription
\* effect that follows: the cleanup unsubscribes the previous subscription;
\* without a user the list and the selection are reset, with a user a
\* subscription on memberIds array-contains user.uid is opened.
AuthChanged(c, currentUser) ==
    /\ currentUser # user[c]
    /\ user' = [user EXCEPT ![c] = currentUser]
    /\ listeners' = [listeners EXCEPT ![c] =
           IF currentUser = <<>> THEN {} ELSE {currentUser[1]}]
    /\ IF currentUser = <<>>
       THEN Render(c, <<>>, <<>>, drawError[c], drawSuccess[c], deleteError[c])
       ELSE UNCHANGED viewVars
    /\ lastCall' = NoCall
    /\ UNCHANGED <<storeVars, feedVars, formVars, createVars, joinVars, drawVars,
                   deleteVars>>

\* ------------------------------------------------------- the subscription
\* The callback adding the delivered groups to the list it has, keeping
\* the groups the delivery no longer holds.
SnapshotKeepsGone(c) ==
    /\ \E uid \in listeners[c] : \E delivered \in {NextGroups(db, uid)} :
        LET Gone(g) == g.id \notin {delivered[i].id : i \in 1..Len(delivered)}
            nextGroups == delivered \o SelectSeq(groups[c], Gone)
        IN  /\ nextGroups # groups[c] \/ groupsError[c] # <<>>
            /\ Render(c, nextGroups, selectedGroupId[c],
                      drawError[c], drawSuccess[c], deleteError[c])
    /\ groupsError' = [groupsError EXCEPT ![c] = <<>>]
    /\ lastCall' = NoCall
    /\ UNCHANGED <<storeVars, authVars, formVars, createVars, joinVars, drawVars,
                   deleteVars>>

\* The success callback leaving groupsError as it is.
SnapshotKeepsError(c) ==
    /\ \E uid \in listeners[c] : \E nextGroups \in {NextGroups(db, uid)} :
        /\ nextGroups # groups[c]
        /\ Render(c, nextGroups, selectedGroupId[c],
                  drawError[c], drawSuccess[c], deleteError[c])
    /\ lastCall' = NoCall
    /\ UNCHANGED <<storeVars, sideVars, createVars, joinVars, drawVars, deleteVars>>

\* onSnapshot's callback of an active subscription: setGroupsError(null) and
\* the full list of the groups of the user it was opened for, sorted; then
\* the effects.  A delivery that changes neither the list nor groupsError
\* is not a step.
Snapshot(c) ==
    /\ \E uid \in listeners[c] : \E nextGroups \in {NextGroups(db, uid)} :
        /\ nextGroups # groups[c] \/ groupsError[c] # <<>>
        /\ Render(c, nextGroups, selectedGroupId[c],
                  drawError[c], drawSuccess[c], deleteError[c])
    /\ groupsError' = [groupsError EXCEPT ![c] = <<>>]
    /\ lastCall' = NoCall
    /\ UNCHANGED <<storeVars, authVars, formVars, createVars, joinVars, drawVars,
                   deleteVars>>

\* onSnapshot's error callback: setGroupsError.  A subscription that has
\* failed delivers nothing more.
SnapshotError(c) ==
    /\ \E uid \in listeners[c] : listeners' = [listeners EXCEPT ![c] = @ \ {uid}]
    /\ groupsError' = [groupsError EXCEPT ![c] = MsgGroupsFailed]
    /\ lastCall' = NoCall
    /\ UNCHANGED <<storeVars, user, formVars, viewVars, createVars, joinVars, drawVars,
                   deleteVars>>

\* onClick of a group in the list: setSelectedGroupId(group.id).  It is a
\* step only when the list holds a group other than the selected one, which
\* takes MaxGroups >= 2.
SelectGroup(c, i) ==
    /\ i \in 1..Len(groups[c])
    /\ <<groups[c][i].id>> # selectedGroupId[c]
    /\ Render(c, groups[c], <<groups[c][i].id>>,
              drawError[c], drawSuccess[c], deleteError[c])
    /\ lastCall' = NoCall
    /\ UNCHANGED <<storeVars, sideVars, createVars, joinVars, drawVars, deleteVars>>

\* ------------------------------------------------------ handleCreateGroup
\* Texts a user can type into the group-name input.
NameInputs == {<<>>, <<" ">>, <<" ", "p">>}

\* Creates that hold or will hold a document id.
CreatesInFlight == Cardinality({c \in Clients : createOp[c].stage = "write"})

\* The submit handler up to its await of addDoc.
CreateStart(c, nameInput, fields) ==
    /\ user[c] # <<>>
    /\ ~isCreatingGroup[c]
    /\ createOp[c].stage = "idle"
    /\ nextDoc + CreatesInFlight < MaxGroups
    /\ createSuccess' = [createSuccess EXCEPT ![c] = <<>>]
    /\ LET trimmedName == Trim(nameInput)
       IN  IF trimmedName = <<>>
           THEN /\ createError' = [createError EXCEPT ![c] = MsgNameFirst]
                /\ isCreatingGroup' = [isCreatingGroup EXCEPT ![c] = FALSE]
                /\ lastCall' = Call(c, "create",
                       [nameInput |-> nameInput, fields |-> fields], "blank name")
                /\ UNCHANGED createOp
           ELSE IF Len(fields) = 0 /\ ~ignoreUndefinedProperties
           THEN \* addDoc rejects customFields: undefined before it sends.
                /\ createError' = [createError EXCEPT ![c] = MsgCreateFailed]
                /\ isCreatingGroup' = [isCreatingGroup EXCEPT ![c] = FALSE]
                /\ lastCall' = Call(c, "create",
                       [nameInput |-> nameInput, fields |-> fields], "addDoc threw")
                /\ UNCHANGED createOp
           ELSE /\ createError' = [createError EXCEPT ![c] = <<>>]
                /\ isCreatingGroup' = [isCreatingGroup EXCEPT ![c] = TRUE]
                /\ createOp' = [createOp EXCEPT ![c] =
                       [stage |-> "write", uid |-> user[c][1],
                        name |-> trimmedName, fields |-> fields]]
                /\ lastCall' = Call(c, "create",
                       [nameInput |-> nameInput, fields |-> fields], "addDoc")
    /\ UNCHANGED <<storeVars, sideVars, viewVars, joinVars, drawVars, deleteVars>>

\* The store applies addDoc: a fresh id, createdAt from the server clock.
CreateApply(c) ==
    /\ createOp[c].stage = "write"
    /\ nextDoc < MaxGroups
    /\ clock < MaxClock
    /\ LET id == DocIds[nextDoc + 1]
       IN  /\ db' = [db EXCEPT ![id] = NewGroupDoc(UserRecord(createOp[c].uid),
                         createOp[c].name, createOp[c].fields, clock + 1)]
           /\ createOp' = [createOp EXCEPT ![c] = [stage |-> "ack", id |-> id]]
    /\ clock' = clock + 1
    /\ nextDoc' = nextDoc + 1
    /\ lastCall' = NoCall
    /\ UNCHANGED <<ignoreUndefinedProperties, sideVars, viewVars, isCreatingGroup,
                   createError, createSuccess, joinVars, drawVars, deleteVars>>

\* addDoc resolved: the form is reset and the new group selected.
CreateAck(c) ==
    /\ createOp[c].stage = "ack"
    /\ createSuccess' = [createSuccess EXCEPT ![c] = MsgCreated]
    /\ isCreatingGroup' = [isCreatingGroup EXCEPT ![c] = FALSE]
    /\ Render(c, groups[c], <<createOp[c].id>>,
              drawError[c], drawSuccess[c], deleteError[c])
    /\ createOp' = [createOp EXCEPT ![c] = Idle]
    /\ lastCall' = NoCall
    /\ UNCHANGED <<storeVars, sideVars, createError, joinVars, drawVars, deleteVars>>

\* addDoc rejected by the store: the catch and finally blocks.
CreateFail(c) ==
    /\ createOp[c].stage = "write"
    /\ createError' = [createError EXCEPT ![c] = MsgCreateFailed]
    /\ isCreatingGroup' = [isCreatingGroup EXCEPT ![c] = FALSE]
    /\ createOp' = [createOp EXCEPT ![c] = Idle]
    /\ lastCall' = NoCall
    /\ UNCHANGED <<storeVars, sideVars, viewVars, createSuccess, joinVars, drawVars,
                   deleteVars>>

\* The document of the session's own addDoc as its subscription shows it
\* before the server has answered: serverTimestamp() still pending, so
\* createdAt reads null.
PendingDoc(c) ==
    [NewGroupDoc(UserRecord(createOp[c].uid), createOp[c].name, createOp[c].fields, 0)
        EXCEPT !.createdAt = <<>>]

\* onSnapshot's callback on the delivery with the pending document.
PendingSnapshot(c) ==
    /\ createOp[c].stage = "write"
    /\ createOp[c].uid \in listeners[c]
    /\ CreatesInFlight = 1
    /\ nextDoc < MaxGroups
    /\ LET local == [db EXCEPT ![DocIds[nextDoc + 1]] = PendingDoc(c)]
           nextGroups == NextGroups(local, createOp[c].uid)
       IN  /\ nextGroups # groups[c] \/ groupsError[c] # <<>>
           /\ Render(c, nextGroups, selectedGroupId[c],
                     drawError[c], drawSuccess[c], deleteError[c])
    /\ groupsError' = [groupsError EXCEPT ![c] = <<>>]
    /\ lastCall' = NoCall
    /\ UNCHANGED <<storeVars, authVars, formVars, createVars, joinVars, drawVars,
                   deleteVars>>

\* -------------------------------------------------------- handleJoinGroup
\* The joinResponses a user can submit for a code: nothing (no schema was
\* loaded), or one text for each field of the group at that code.
ResponseInputs(data) ==
    {EmptyObj} \cup
    (IF data.exists
     THEN [{FieldsOf(data)[i].id : i \in 1..Len(FieldsOf(data))} -> Texts]
     ELSE {})

JoinArg(codeInput, joinResponses) ==
    [codeInput |-> codeInput, joinResponses |-> joinResponses]

\* The submit handler up to its await of updateDoc, getDoc resolved.
JoinSubmit(c, codeInput, joinResponses) ==
    /\ user[c] # <<>>
    /\ ~isJoining[c]
    /\ joinOp[c].stage = "idle"
    /\ joinSuccess' = [joinSuccess EXCEPT ![c] = <<>>]
    /\ LET trimmedCode == Trim(codeInput)
           data == Lookup(db, trimmedCode)
           missingFields == MissingFields(FieldsOf(data), joinResponses)
       IN  IF trimmedCode = <<>>
           THEN /\ joinError' = [joinError EXCEPT ![c] = MsgEnterCode]
                /\ lastCall' = Call(c, "join",
                       JoinArg(codeInput, joinResponses), "no code")
                /\ UNCHANGED <<isJoining, joinOp>>
           ELSE IF ~data.exists
           THEN /\ joinError' = [joinError EXCEPT ![c] = MsgNotFound]
                /\ isJoining' = [isJoining EXCEPT ![c] = FALSE]
                /\ lastCall' = Call(c, "join",
                       JoinArg(codeInput, joinResponses), "not found")
                /\ UNCHANGED joinOp
           ELSE IF Includes(data.memberIds, user[c][1])
           THEN /\ joinError' = [joinError EXCEPT ![c] = MsgAlreadyMember]
                /\ isJoining' = [isJoining EXCEPT ![c] = FALSE]
                /\ lastCall' = Call(c, "join",
                       JoinArg(codeInput, joinResponses), "already member")
                /\ UNCHANGED joinOp
           ELSE IF Len(FieldsOf(data)) > 0 /\ Len(missingFields) > 0
           THEN /\ joinError' = [joinError EXCEPT ![c] =
                       MsgFillOut \o Labels(missingFields)]
                /\ isJoining' = [isJoining EXCEPT ![c] = FALSE]
                /\ lastCall' = Call(c, "join",
                       JoinArg(codeInput, joinResponses), "missing fields")
                /\ UNCHANGED joinOp
           ELSE /\ joinError' = [joinError EXCEPT ![c] = <<>>]
                /\ isJoining' = [isJoining EXCEPT ![c] = TRUE]
                /\ joinOp' = [joinOp EXCEPT ![c] =
                       [stage |-> "write", id |-> trimmedCode, uid |-> user[c][1],
                        data |-> data, joinResponses |-> joinResponses]]
                /\ lastCall' = Call(c, "join",
                       JoinArg(codeInput, joinResponses), "updateDoc")
    /\ UNCHANGED <<storeVars, sideVars, viewVars, createVars, drawVars, deleteVars>>

\* The submit handler when getDoc rejects: the catch and finally blocks.
JoinReadFail(c, codeInput, joinResponses) ==
    /\ user[c] # <<>>
    /\ ~isJoining[c]
    /\ joinOp[c].stage = "idle"
    /\ Trim(codeInput) # <<>>
    /\ joinSuccess' = [joinSuccess EXCEPT ![c] = <<>>]
    /\ joinError' = [joinError EXCEPT ![c] = MsgJoinFailed]
    /\ isJoining' = [isJoining EXCEPT ![c] = FALSE]
    /\ lastCall' = Call(c, "join", JoinArg(codeInput, joinResponses),
                     "getDoc rejected")
    /\ UNCHANGED <<storeVars, sideVars, viewVars, createVars, joinOp, drawVars,
                   deleteVars>>

\* The join written as a whole document from the data the handler read,
\* whether or not a document is still there.
JoinApplySetDoc(c) ==
    /\ joinOp[c].stage = "write"
    /\ db' = [db EXCEPT ![joinOp[c].id] =
                 JoinUpdate(joinOp[c].data, UserRecord(joinOp[c].uid),
                            joinOp[c].joinResponses)]
    /\ joinOp' = [joinOp EXCEPT ![c].stage = "ack"]
    /\ lastCall' = NoCall
    /\ UNCHANGED <<clock, nextDoc, ignoreUndefinedProperties, sideVars, viewVars,
                   createVars, isJoining, joinError, joinSuccess, drawVars,
                   deleteVars>>

\* The store applies the join's updateDoc to the document it finds.
JoinApply(c) ==
    /\ joinOp[c].stage = "write"
    /\ Lookup(db, joinOp[c].id).exists
    /\ db' = [db EXCEPT ![joinOp[c].id] =
                 JoinUpdate(@, UserRecord(joinOp[c].uid), joinOp[c].joinResponses)]
    /\ joinOp' = [joinOp EXCEPT ![c].stage = "ack"]
    /\ lastCall' = NoCall
    /\ UNCHANGED <<clock, nextDoc, ignoreUndefinedProperties, sideVars, viewVars,
                   createVars, isJoining, joinError, joinSuccess, drawVars,
                   deleteVars>>

\* updateDoc resolved: the form is reset and the joined group selected.
JoinAck(c) ==
    /\ joinOp[c].stage = "ack"
    /\ joinSuccess' = [joinSuccess EXCEPT ![c] = MsgJoined]
    /\ isJoining' = [isJoining EXCEPT ![c] = FALSE]
    /\ Render(c, groups[c], <<joinOp[c].id>>,
              drawError[c], drawSuccess[c], deleteError[c])
    /\ joinForm' = [joinForm EXCEPT ![c] = EmptyForm]
    /\ joinOp' = [joinOp EXCEPT ![c] = Idle]
    /\ lastCall' = NoCall
    /\ UNCHANGED <<storeVars, authVars, feedVars, lookups, createVars, joinError,
                   drawVars, deleteVars>>

\* updateDoc rejected (no document at the id, or the store unavailable).
JoinFail(c) ==
    /\ joinOp[c].stage = "write"
    /\ joinError' = [joinError EXCEPT ![c] = MsgJoinFailed]
    /\ isJoining' = [isJoining EXCEPT ![c] = FALSE]
    /\ joinOp' = [joinOp EXCEPT ![c] = Idle]
    /\ lastCall' = NoCall
    /\ UNCHANGED <<storeVars, sideVars, viewVars, createVars, joinSuccess, drawVars,
                   deleteVars>>

\* ------------------------------------------------------- loadGroupFields
\* fields.forEach((field) => { initialResponses[field.id] = ''; })
InitialResponses(fields) == [id \in {fields[i].id : i \in 1..Len(fields)} |-> <<>>]

\* The form after loadGroupFields found or did not find a group: the schema
\* data.customFields ?? [] with an empty answer for each field, or nothing.
LoadedForm(form, data) ==
    IF data.exists
    THEN [form EXCEPT !.joinGroupFields = FieldsOf(data),
                      !.joinResponses = InitialResponses(FieldsOf(data))]
    ELSE [form EXCEPT !.joinGroupFields = <<>>, !.joinResponses = EmptyObj]

\* onChange of the join-code input, setJoinCode(event.target.value), and the
\* effect on joinCode: loadGroupFields up to its return or its await of
\* getDoc.
SetJoinCode(c, text) ==
    /\ user[c] # <<>>
    /\ text # joinForm[c].joinCode
    /\ LET trimmedCode == Trim(text)
       IN  IF trimmedCode = <<>> \/ Len(trimmedCode) < MinCodeLength
           THEN /\ joinForm' = [joinForm EXCEPT ![c] =
                       [joinCode |-> text, joinGroupFields |-> <<>>,
                        joinResponses |-> EmptyObj]]
                /\ lastCall' = Call(c, "loadGroupFields", text, "too short")
                /\ UNCHANGED lookups
           ELSE /\ BagCardinality(lookups[c]) < MaxLookups
                /\ joinForm' = [joinForm EXCEPT ![c].joinCode = text]
                /\ lookups' = [lookups EXCEPT ![c] = @ (+) SetToBag({trimmedCode})]
                /\ lastCall' = Call(c, "loadGroupFields", text, "getDoc")
    /\ UNCHANGED <<storeVars, authVars, feedVars, viewVars, createVars, joinVars,
                   drawVars, deleteVars>>

\* getDoc of loadGroupFields resolved: the schema and the answers are set
\* from the document found, whatever the join code is by now.
LookupDone(c, code) ==
    /\ BagIn(code, lookups[c])
    /\ lookups' = [lookups EXCEPT ![c] = @ (-) SetToBag({code})]
    /\ joinForm' = [joinForm EXCEPT ![c] = LoadedForm(@, Lookup(db, code))]
    /\ lastCall' = Call(c, "loadGroupFields", code, "getDoc resolved")
    /\ UNCHANGED <<storeVars, authVars, feedVars, viewVars, createVars, joinVars,
                   drawVars, deleteVars>>

\* The catch block rethrowing instead of clearing the schema: the form keeps
\* what it showed.
LookupFailKeepsForm(c, code) ==
    /\ BagIn(code, lookups[c])
    /\ lookups' = [lookups EXCEPT ![c] = @ (-) SetToBag({code})]
    /\ lastCall' = Call(c, "loadGroupFields", code, "getDoc rejected")
    /\ UNCHANGED <<storeVars, authVars, feedVars, joinForm, viewVars, createVars,
                   joinVars, drawVars, deleteVars>>

\* getDoc of loadGroupFields rejected: the catch block.
LookupFail(c, code) ==
    /\ BagIn(code, lookups[c])
    /\ lookups' = [lookups EXCEPT ![c] = @ (-) SetToBag({code})]
    /\ joinForm' = [joinForm EXCEPT ![c].joinGroupFields = <<>>,
                                    ![c].joinResponses = EmptyObj]
    /\ lastCall' = Call(c, "loadGroupFields", code, "getDoc rejected")
    /\ UNCHANGED <<storeVars, authVars, feedVars, viewVars, createVars, joinVars,
                   drawVars, deleteVars>>

\* onChange of the input of the schema's i-th field:
\* setJoinResponses({ ...joinResponses, [field.id]: event.target.value })
SetJoinResponse(c, i, text) ==
    /\ user[c] # <<>>
    /\ i \in 1..Len(joinForm[c].joinGroupFields)
    /\ LET field == joinForm[c].joinGroupFields[i]
       IN  /\ (field.id \notin DOMAIN joinForm[c].joinResponses
               \/ joinForm[c].joinResponses[field.id] # text)
           /\ joinForm' = [joinForm EXCEPT ![c].joinResponses = Put(@, field.id, text)]
    /\ lastCall' = NoCall
    /\ UNCHANGED <<storeVars, authVars, feedVars, lookups, viewVars, createVars,
                   joinVars, drawVars, deleteVars>>

\* onSubmit of the join form: handleJoinGroup over the form's state.
JoinFormSubmit(c) == JoinSubmit(c, joinForm[c].joinCode, joinForm[c].joinResponses)

\* ---------------------------------------------------------- handleRunDraw
\* The owner guard dropped.
IsOwnerAnyUser(usr, group) == usr # <<>>

\* The guard of the owner-only handlers: user && user.uid === group.ownerId.
IsOwner(usr, group) == usr # <<>> /\ usr[1] = group.ownerId

\* The member-count check off by one.
MinDrawMembersOffByOne == 2 - 1

\* group.memberIds.length < 2
MinDrawMembers == 2

\* handleRunDraw(group) up to its await of updateDoc.
DrawStart(c, group) ==
    /\ ~isRunningDraw[c]
    /\ drawOp[c].stage = "idle"
    /\     IF ~IsOwner(user[c], group)
           THEN /\ lastCall' = Call(c, "draw", group, "not owner")
                /\ UNCHANGED <<drawError, drawSuccess, drawVars>>
           ELSE /\ drawSuccess' = [drawSuccess EXCEPT ![c] = <<>>]
                /\ IF Len(group.memberIds) < MinDrawMembers
                   THEN /\ drawError' = [drawError EXCEPT ![c] = MsgTwoMembers]
                        /\ lastCall' = Call(c, "draw", group, "too few members")
                        /\ UNCHANGED drawVars
                   ELSE \E rnd \in RandomDraws(Len(group.memberIds)) :
                        /\ drawError' = [drawError EXCEPT ![c] = <<>>]
                        /\ isRunningDraw' = [isRunningDraw EXCEPT ![c] = TRUE]
                        /\ drawOp' = [drawOp EXCEPT ![c] =
                               [stage |-> "write", id |-> group.id,
                                uid |-> user[c][1], group |-> group,
                                assignments |-> BuildAssignments(group,
                                    shuffle(group.memberIds, rnd))]]
                        /\ lastCall' = Call(c, "draw", group, "updateDoc")
    /\ UNCHANGED <<storeVars, sideVars, groups, selectedGroupId, deleteError,
                   createVars, joinVars, deleteVars>>

\* The store applies the draw's updateDoc to the document it finds.
DrawApply(c) ==
    /\ drawOp[c].stage = "write"
    /\ Lookup(db, drawOp[c].id).exists
    /\ clock < MaxClock
    /\ db' = [db EXCEPT ![drawOp[c].id] =
                 DrawUpdate(@, drawOp[c].assignments, clock + 1)]
    /\ clock' = clock + 1
    /\ drawOp' = [drawOp EXCEPT ![c].stage = "ack"]
    /\ lastCall' = NoCall
    /\ UNCHANGED <<nextDoc, ignoreUndefinedProperties, sideVars, viewVars, createVars,
                   joinVars, isRunningDraw, deleteVars>>

\* updateDoc resolved.
DrawAck(c) ==
    /\ drawOp[c].stage = "ack"
    /\ drawSuccess' = [drawSuccess EXCEPT ![c] = MsgDrawn]
    /\ isRunningDraw' = [isRunningDraw EXCEPT ![c] = FALSE]
    /\ drawOp' = [drawOp EXCEPT ![c] = Idle]
    /\ lastCall' = NoCall
    /\ UNCHANGED <<storeVars, sideVars, groups, selectedGroupId, drawError, deleteError,
                   createVars, joinVars, deleteVars>>

\* updateDoc rejected (no document at the id, or the store unavailable).
DrawFail(c) ==
    /\ drawOp[c].stage = "write"
    /\ drawError' = [drawError EXCEPT ![c] = MsgDrawFailed]
    /\ isRunningDraw' = [isRunningDraw EXCEPT ![c] = FALSE]
    /\ drawOp' = [drawOp EXCEPT ![c] = Idle]
    /\ lastCall' = NoCall
    /\ UNCHANGED <<storeVars, sideVars, groups, selectedGroupId, drawSuccess,
                   deleteError, createVars, joinVars, deleteVars>>

\* ------------------------------------------------------ handleDeleteGroup
\* handleDeleteGroup(group) up to its await of deleteDoc; confirmed is the
\* answer to window.confirm.
DeleteStart(c, group, confirmed) ==
    /\ ~isDeletingGroup[c]
    /\ deleteOp[c].stage = "idle"
    /\     IF ~IsOwner(user[c], group)
           THEN /\ lastCall' = Call(c, "delete", group, "not owner")
                /\ UNCHANGED <<deleteError, deleteVars>>
           ELSE IF ~confirmed
           THEN /\ lastCall' = Call(c, "delete", group, "not confirmed")
                /\ UNCHANGED <<deleteError, deleteVars>>
           ELSE /\ deleteError' = [deleteError EXCEPT ![c] = <<>>]
                /\ isDeletingGroup' = [isDeletingGroup EXCEPT ![c] = TRUE]
                /\ deleteOp' = [deleteOp EXCEPT ![c] =
                       [stage |-> "write", id |-> group.id, uid |-> user[c][1]]]
                /\ lastCall' = Call(c, "delete", group, "deleteDoc")
    /\ UNCHANGED <<storeVars, sideVars, groups, selectedGroupId, drawError, drawSuccess,
                   createVars, joinVars, drawVars>>

\* The store applies deleteDoc: no document at the id afterwards.
DeleteApply(c) ==
    /\ deleteOp[c].stage = "write"
    /\ db' = [db EXCEPT ![deleteOp[c].id] = NoDoc]
    /\ deleteOp' = [deleteOp EXCEPT ![c].stage = "ack"]
    /\ lastCall' = NoCall
    /\ UNCHANGED <<clock, nextDoc, ignoreUndefinedProperties, sideVars, viewVars,
                   createVars, joinVars, drawVars, isDeletingGroup>>

\* deleteDoc resolved: setSelectedGroupId(null); isDeletingGroup is not reset.
DeleteAck(c) ==
    /\ deleteOp[c].stage = "ack"
    /\ Render(c, groups[c], <<>>, drawError[c], drawSuccess[c], deleteError[c])
    /\ deleteOp' = [deleteOp EXCEPT ![c] = Idle]
    /\ lastCall' = NoCall
    /\ UNCHANGED <<storeVars, sideVars, createVars, joinVars, drawVars, isDeletingGroup>>

\* The catch block without the reset of isDeletingGroup.
DeleteFailKeepsFlag(c) ==
    /\ deleteOp[c].stage = "write"
    /\ deleteError' = [deleteError EXCEPT ![c] = MsgDeleteFailed]
    /\ deleteOp' = [deleteOp EXCEPT ![c] = Idle]
    /\ lastCall' = NoCall
    /\ UNCHANGED <<storeVars, sideVars, groups, selectedGroupId, drawError, drawSuccess,
                   createVars, joinVars, drawVars, isDeletingGroup>>

\* deleteDoc rejected by the store: the catch block.
DeleteFail(c) ==
    /\ deleteOp[c].stage = "write"
    /\ deleteError' = [deleteError EXCEPT ![c] = MsgDeleteFailed]
    /\ isDeletingGroup' = [isDeletingGroup EXCEPT ![c] = FALSE]
    /\ deleteOp' = [deleteOp EXCEPT ![c] = Idle]
    /\ lastCall' = NoCall
    /\ UNCHANGED <<storeVars, sideVars, groups, selectedGroupId, drawError, drawSuccess,
                   createVars, joinVars, drawVars>>

\* ---------------------------------------------------------------- the view
\* myAssignment: selectedGroup?.assignments?.[user.uid] ?? null
myAssignment(group, uid) ==
    IF group.assignments # <<>> /\ uid \in DOMAIN group.assignments[1]
    THEN <<group.assignments[1][uid]>>
    ELSE <<>>

\* The rows a panel shows of one member's responses: the fields with a
\* non-empty response, or nothing when the group has no fields or the member
\* no responses.
ResponseRows(group, memberId) ==
    IF Len(group.customFields) > 0 /\ memberId \in DOMAIN group.memberResponses
    THEN LET responses == group.memberResponses[memberId]
             Shown(field) == field.id \in DOMAIN responses /\ responses[field.id] # <<>>
             shown == SelectSeq(group.customFields, Shown)
         IN  [i \in 1..Len(shown) |->
                 [label |-> shown[i].label, response |-> responses[shown[i].id]]]
    ELSE <<>>

\* The "Your match" panel of a member, or the waiting text.
MatchPanel(group, uid) ==
    IF myAssignment(group, uid) # <<>>
    THEN [title |-> "Your match",
          recipientName |-> myAssignment(group, uid)[1].recipientName,
          rows |-> ResponseRows(group, myAssignment(group, uid)[1].recipientId)]
    ELSE [title |-> "Waiting for the organizer to run the draw."]

\* The badge showing the name of the member's recipient.
AssignedBadgeNamesRecipient(group, memberId) ==
    IF /\ group.assignments # <<>>
       /\ memberId \in DOMAIN group.assignments[1]
    THEN <<group.assignments[1][memberId].recipientName>>
    ELSE <<>>

\* The roster badge of a member: "Assigned" when
\* selectedGroup.assignments?.[member.id]?.recipientName is truthy.
AssignedBadge(group, memberId) ==
    IF /\ group.assignments # <<>>
       /\ memberId \in DOMAIN group.assignments[1]
       /\ group.assignments[1][memberId].recipientName # ""
    THEN <<"Assigned">>
    ELSE <<>>

\* The roster: one entry for each profile of members, with the member's
\* role, responses and badge.
Roster(group) ==
    [m \in DOMAIN group.members |->
        [displayName |-> group.members[m].displayName,
         photoURL |-> group.members[m].photoURL,
         role |-> IF m = group.ownerId THEN "Organizer" ELSE "Participant",
         rows |-> ResponseRows(group, m),
         badge |-> AssignedBadge(group, m)]]

\* ------------------------------------------------------ the specification
\* selectedGroup: the group of the list with the selected id, or null.
SelectedGroup(c) ==
    IF \E i \in 1..Len(groups[c]) : <<groups[c][i].id>> = selectedGroupId[c]
    THEN <<groups[c][CHOOSE i \in 1..Len(groups[c]) :
                          <<groups[c][i].id>> = selectedGroupId[c]]>>
    ELSE <<>>

\* The organizer panel is rendered: a group is selected and the user owns it.
OwnerPanel(c) ==
    /\ user[c] # <<>>
    /\ SelectedGroup(c) # <<>>
    /\ user[c][1] = SelectedGroup(c)[1].ownerId

\* The "Run the draw" button.
DrawClick(c) == OwnerPanel(c) /\ DrawStart(c, SelectedGroup(c)[1])

\* The "Delete group" button and the answer to its confirmation.
DeleteClick(c, confirmed) ==
    OwnerPanel(c) /\ DeleteStart(c, SelectedGroup(c)[1], confirmed)

\* An awaited updateDoc finds no document at its id.
DocMissing(op) == op.stage = "write" /\ ~Lookup(db, op.id).exists

\* The ids of the documents of the collection.
ExistingIds == {d \in DocIdSet : db[d].exists}

\* Responses that answer every field of the group.
Answered(data) ==
    {r \in ResponseInputs(data) : MissingFields(FieldsOf(data), r) = <<>>}

\* The sessions of the organizer and of the members.
Organizers == {"c1"}
Joiners == {"c2", "c3"}
Watchers == {"c1", "c2"}

\* The life of a group: an organizer creates it, draws and deletes through
\* the organizer panel; members join by its code with complete answers.
Next ==
    \/ \E c \in Watchers :
        \/ Snapshot(c)
    \/ \E c \in Organizers :
        \/ CreateStart(c, <<" ", "p">>, <<Field1>>)
        \/ CreateApply(c)
        \/ CreateAck(c)
        \/ DrawClick(c)
        \/ DrawApply(c)
        \/ DrawAck(c)
        \/ DocMissing(drawOp[c]) /\ DrawFail(c)
        \/ DeleteClick(c, TRUE)
        \/ DeleteApply(c)
        \/ DeleteAck(c)
    \/ \E c \in Joiners :
        \/ \E id \in ExistingIds : \E joinResponses \in Answered(db[id]) :
               JoinSubmit(c, id, joinResponses)
        \/ JoinApply(c)
        \/ JoinAck(c)
        \/ DocMissing(joinOp[c]) /\ JoinFail(c)

Spec == Init /\ [][Next]_vars

\* The organizer's session with a group of its list: the document the
\* organizer created and the listed users then joined, in that order.
RECURSIVE JoinAll(_, _)
JoinAll(data, joiners) ==
    IF joiners = <<>> THEN data
    ELSE JoinAll(JoinUpdate(data, UserRecord(Head(joiners)), EmptyObj), Tail(joiners))

JoinOrders ==
    {q \in UNION {[1..n -> Users \ {"u1"}] : n \in 0..Cardinality(Users) - 1} :
        \A i \in DOMAIN q, j \in DOMAIN q : i # j => q[i] # q[j]}

InitDraw ==
    /\ InitHandlers
    /\ ignoreUndefinedProperties = TRUE
    /\ user = [c \in Clients |-> <<OwnAccount(c)>>]
    /\ listeners = [c \in Clients |-> {user[c][1]}]
    /\ clock = 1
    /\ nextDoc = 1
    /\ \E joiners \in JoinOrders :
        LET data == JoinAll(NewGroupDoc(UserRecord("u1"), <<"p">>, <<>>, 1), joiners)
        IN  /\ db = [d \in DocIdSet |-> IF d = DocIds[1] THEN data ELSE NoDoc]
            /\ groups = [c \in Clients |->
                   IF c = "c1" THEN <<GroupOf(DocIds[1], data)>> ELSE <<>>]
            /\ selectedGroupId = [c \in Clients |->
                   IF c = "c1" THEN <<DocIds[1]>> ELSE <<>>]

\* The draw alone, on every group of up to Cardinality(Users) members.
NextDraw ==
    \E c \in Organizers :
        \/ DrawClick(c)
        \/ DrawApply(c)
        \/ DrawAck(c)

SpecDraw == InitDraw /\ [][NextDraw]_vars

\* The handlers called with any group of the session's list, whoever owns
\* it, and both answers to the confirmation.
NextCalls ==
    \/ \E c \in Watchers :
        \/ Snapshot(c)
        \/ \E i \in 1..Len(groups[c]) :
            \/ DrawStart(c, groups[c][i])
            \/ \E confirmed \in BOOLEAN : DeleteStart(c, groups[c][i], confirmed)
        \/ DrawApply(c)
        \/ DrawAck(c)
        \/ DocMissing(drawOp[c]) /\ DrawFail(c)
        \/ DeleteApply(c)
        \/ DeleteAck(c)
    \/ \E c \in Organizers :
        \/ CreateStart(c, <<" ", "p">>, <<Field1>>)
        \/ CreateApply(c)
        \/ CreateAck(c)
    \/ \E c \in Watchers \ Organizers :
        \/ \E id \in ExistingIds : \E joinResponses \in Answered(db[id]) :
               JoinSubmit(c, id, joinResponses)
        \/ JoinApply(c)
        \/ JoinAck(c)
        \/ DocMissing(joinOp[c]) /\ JoinFail(c)

SpecCalls == Init /\ [][NextCalls]_vars

\* The create and join forms with every input: blank and padded names and
\* codes, unknown codes, every schema, missing and blank answers.
InitForms ==
    /\ InitStore
    /\ ignoreUndefinedProperties \in BOOLEAN
    /\ InitClients
    /\ user = [c \in Clients |-> <<OwnAccount(c)>>]
    /\ listeners = [c \in Clients |-> {user[c][1]}]

NextForms ==
    \/ \E c \in Organizers :
        \/ \E nameInput \in NameInputs, fields \in FieldLists :
               CreateStart(c, nameInput, fields)
        \/ CreateApply(c)
        \/ CreateAck(c)
        \/ Snapshot(c)
    \/ \E c \in Watchers :
        \/ \E codeInput \in CodeInputs :
               \E joinResponses \in ResponseInputs(Lookup(db, Trim(codeInput))) :
                   JoinSubmit(c, codeInput, joinResponses)
        \/ JoinApply(c)
        \/ JoinAck(c)

SpecForms == InitForms /\ [][NextForms]_vars

\* One member signed in to the same account in two sessions.
InitTabs ==
    /\ InitStore
    /\ ignoreUndefinedProperties = FALSE
    /\ InitClients
    /\ user = [c \in Clients |-> IF c \in Joiners THEN <<"u2">> ELSE <<OwnAccount(c)>>]
    /\ listeners = [c \in Clients |-> {user[c][1]}]

NextTabs ==
    \/ \E c \in Watchers :
        \/ Snapshot(c)
    \/ \E c \in Organizers :
        \/ CreateStart(c, <<" ", "p">>, <<Field1>>)
        \/ CreateApply(c)
        \/ CreateAck(c)
    \/ \E c \in Joiners :
        \/ \E id \in ExistingIds : \E joinResponses \in Answered(db[id]) :
               JoinSubmit(c, id, joinResponses)
        \/ JoinApply(c)
        \/ JoinAck(c)

SpecTabs == InitTabs /\ [][NextTabs]_vars

\* The store rejecting a request (offline, permission denied, document
\* gone): every handler's catch branch, with one organizer and one member.
NextFaults ==
    \/ \E c \in Watchers :
        \/ Snapshot(c)
    \/ \E c \in Organizers :
        \/ CreateStart(c, <<" ", "p">>, <<Field1>>)
        \/ CreateApply(c)
        \/ CreateAck(c)
        \/ CreateFail(c)
        \/ DrawClick(c)
        \/ DrawApply(c)
        \/ DrawAck(c)
        \/ DrawFail(c)
        \/ DeleteClick(c, TRUE)
        \/ DeleteApply(c)
        \/ DeleteAck(c)
        \/ DeleteFail(c)
    \/ \E c \in Watchers \ Organizers :
        \/ \E id \in ExistingIds : \E joinResponses \in Answered(db[id]) :
               JoinSubmit(c, id, joinResponses)
        \/ \E id \in ExistingIds : \E joinResponses \in Answered(db[id]) :
               JoinReadFail(c, id, joinResponses)
        \/ JoinApply(c)
        \/ JoinAck(c)
        \/ JoinFail(c)

SpecFaults == Init /\ [][NextFaults]_vars

\* A collection that already holds a group from an earlier day: u1 created
\* it at time 1 under the last document id and u2 joined it.
OlderGroup ==
    JoinUpdate(NewGroupDoc(UserRecord("u1"), <<"o">>, <<Field1>>, 1),
               UserRecord("u2"), Put(EmptyObj, Field1.id, <<"a">>))

InitLists ==
    /\ db = [d \in DocIdSet |-> IF d = DocIds[Len(DocIds)] THEN OlderGroup ELSE NoDoc]
    /\ clock = 1
    /\ nextDoc = 0
    /\ ignoreUndefinedProperties = FALSE
    /\ InitClients
    /\ user = [c \in Clients |-> <<OwnAccount(c)>>]
    /\ listeners = [c \in Clients |-> {user[c][1]}]

\* The group lists: snapshots (the pending one too), clicks on a group of
\* the list, and the creates, joins and deletes that change the lists.  A
\* session's writes reach the store in the order it issued them, so the
\* deleteDoc of a group still being created is applied after its addDoc.
NextLists ==
    \/ \E c \in Watchers :
        \/ Snapshot(c)
        \/ \E i \in 1..Len(groups[c]) : SelectGroup(c, i)
    \/ \E c \in Organizers :
        \/ CreateStart(c, <<" ", "p">>, <<Field1>>)
        \/ PendingSnapshot(c)
        \/ CreateApply(c)
        \/ CreateAck(c)
        \/ DeleteClick(c, TRUE)
        \/ createOp[c].stage # "write" /\ DeleteApply(c)
        \/ DeleteAck(c)
    \/ \E c \in Watchers \ Organizers :
        \/ \E id \in ExistingIds : \E joinResponses \in Answered(db[id]) :
               JoinSubmit(c, id, joinResponses)
        \/ JoinApply(c)
        \/ JoinAck(c)
        \/ DocMissing(joinOp[c]) /\ JoinFail(c)

SpecLists == InitLists /\ [][NextLists]_vars

\* Snapshots are delivered: a subscription whose list differs from the
\* store's is eventually called back.
FairLists == SpecLists /\ \A c \in Watchers : WF_vars(Snapshot(c))

\* A party of four: u1 created the group at time 0 and u2, u3 and u4
\* joined it, each with an answer to its one field.
Party ==
    LET answer == Put(EmptyObj, Field1.id, <<"a">>)
        created == NewGroupDoc(UserRecord("u1"), <<"p">>, <<Field1>>, 0)
    IN  JoinUpdate(JoinUpdate(JoinUpdate(created, UserRecord("u2"), answer),
                              UserRecord("u3"), answer),
                   UserRecord("u4"), answer)

\* The organizer in two sessions, a member in the third.
OwnerTabs == {"c1", "c2"}

InitRedraw ==
    /\ InitHandlers
    /\ ignoreUndefinedProperties = FALSE
    /\ user = [c \in Clients |-> IF c \in OwnerTabs THEN <<"u1">> ELSE <<"u3">>]
    /\ listeners = [c \in Clients |-> {user[c][1]}]
    /\ clock = 0
    /\ nextDoc = 1
    /\ db = [d \in DocIdSet |-> IF d = DocIds[1] THEN Party ELSE NoDoc]
    /\ groups = [c \in Clients |-> <<GroupOf(DocIds[1], Party)>>]
    /\ selectedGroupId = [c \in Clients |-> <<DocIds[1]>>]

\* Draws and re-draws from both of the organizer's sessions, which may be
\* awaiting the store at the same time, each over the list it started
\* with; the member's session follows the document.
NextRedraw ==
    \/ \E c \in Clients \ OwnerTabs : Snapshot(c)
    \/ \E c \in OwnerTabs :
        \/ DrawClick(c)
        \/ DrawApply(c)
        \/ DrawAck(c)

SpecRedraw == InitRedraw /\ [][NextRedraw]_vars

\* The accounts signed in to on the sessions that change identity.
Accounts == {"u1", "u2"}

\* After construction: nobody signed in, no subscription, the collection
\* holding the older group.
InitAuth ==
    /\ db = [d \in DocIdSet |-> IF d = DocIds[Len(DocIds)] THEN OlderGroup ELSE NoDoc]
    /\ clock = 1
    /\ nextDoc = 0
    /\ ignoreUndefinedProperties = FALSE
    /\ InitClients
    /\ user = [c \in Clients |-> <<>>]
    /\ listeners = [c \in Clients |-> {}]

\* Sign-in, sign-out and change of account on two sessions, the snapshots
\* of their subscriptions, and a create and joins that change what the
\* subscriptions deliver.
NextAuth ==
    \/ \E c \in Watchers :
        \/ \E u \in Accounts : AuthChanged(c, <<u>>)
        \/ AuthChanged(c, <<>>)
        \/ Snapshot(c)
        \/ \E id \in ExistingIds : \E joinResponses \in Answered(db[id]) :
               JoinSubmit(c, id, joinResponses)
        \/ JoinApply(c)
        \/ JoinAck(c)
    \/ \E c \in Organizers :
        \/ CreateStart(c, <<" ", "p">>, <<Field1>>)
        \/ CreateApply(c)
        \/ CreateAck(c)

SpecAuth == InitAuth /\ [][NextAuth]_vars

\* The accounts of the sessions whose subscription may fail: u2 is in the
\* older group, u3 in no group until it creates one.
FeedAccounts == {"u2", "u3"}

\* The subscription failing and being reopened by a change of identity,
\* with the deliveries of the lists, empty ones too.
NextFeed ==
    \/ \E c \in Watchers :
        \/ \E u \in FeedAccounts : AuthChanged(c, <<u>>)
        \/ AuthChanged(c, <<>>)
        \/ Snapshot(c)
        \/ SnapshotError(c)
    \/ \E c \in Organizers :
        \/ CreateStart(c, <<" ", "p">>, <<Field1>>)
        \/ PendingSnapshot(c)
        \/ CreateApply(c)
        \/ CreateAck(c)

SpecFeed == InitAuth /\ [][NextFeed]_vars

\* A group without custom fields, created by u1 at time 2.
PlainGroup == NewGroupDoc(UserRecord("u1"), <<"p">>, <<>>, 2)

\* Join codes typed into the form: nothing, a short code, the code of the
\* plain group, a code of full length that names no group, and the padded
\* code of the older group.
FormCodes ==
    {<<>>, <<"x">>, DocIds[1], DocIds[2],
     <<" ">> \o DocIds[Len(DocIds)] \o <<" ">>}

\* The session that fills in the join form.
FormClients == Joiners \ Watchers

InitJoinForm ==
    /\ db = [d \in DocIdSet |->
                IF d = DocIds[1] THEN PlainGroup
                ELSE IF d = DocIds[Len(DocIds)] THEN OlderGroup ELSE NoDoc]
    /\ clock = 2
    /\ nextDoc = 1
    /\ ignoreUndefinedProperties = TRUE
    /\ InitClients
    /\ user = [c \in Clients |-> <<OwnAccount(c)>>]
    /\ listeners = [c \in Clients |-> {user[c][1]}]

\* The join form: edits of the code, the schema lookups they start
\* completing in any order, answers typed into the schema's inputs, and
\* the submit with the join that follows.
NextJoinForm ==
    \E c \in FormClients :
        \/ \E text \in FormCodes : SetJoinCode(c, text)
        \/ \E code \in BagToSet(lookups[c]) : LookupDone(c, code)
        \/ \E code \in BagToSet(lookups[c]) : LookupFail(c, code)
        \/ \E i \in 1..Len(joinForm[c].joinGroupFields) : \E text \in Texts :
               SetJoinResponse(c, i, text)
        \/ JoinFormSubmit(c)
        \/ JoinApply(c)
        \/ JoinAck(c)

SpecJoinForm == InitJoinForm /\ [][NextJoinForm]_vars

\* The organizer moving between the older group and a group it creates
\* while its draws and deletes are awaited, succeed or fail; a member joins
\* the new group.
NextSwitch ==
    \/ \E c \in Watchers :
        \/ Snapshot(c)
        \/ \E i \in 1..Len(groups[c]) : SelectGroup(c, i)
    \/ \E c \in Organizers :
        \/ CreateStart(c, <<" ", "p">>, <<Field1>>)
        \/ PendingSnapshot(c)
        \/ CreateApply(c)
        \/ CreateAck(c)
        \/ DrawClick(c)
        \/ DrawApply(c)
        \/ DrawAck(c)
        \/ DrawFail(c)
        \/ DeleteClick(c, TRUE)
        \/ createOp[c].stage # "write" /\ DeleteApply(c)
        \/ DeleteAck(c)
        \/ DeleteFail(c)
    \/ \E c \in Watchers \ Organizers :
        \/ \E id \in ExistingIds : \E joinResponses \in Answered(db[id]) :
               JoinSubmit(c, id, joinResponses)
        \/ JoinApply(c)
        \/ JoinAck(c)
        \/ DocMissing(joinOp[c]) /\ JoinFail(c)

SpecSwitch == InitLists /\ [][NextSwitch]_vars

\* ================================================================ claims
\* The ids of a memberIds array, as a set.
Members(data) == {data.memberIds[i] : i \in 1..Len(data.memberIds)}

\* Every member of S gives to a member of S and receives from exactly one.
IsPermutationOf(assignments, S) ==
    /\ DOMAIN assignments = S
    /\ \A m \in S : Cardinality({g \in S : assignments[g].recipientId = m}) = 1

NoFixedPoint(assignments) ==
    \A g \in DOMAIN assignments : assignments[g].recipientId # g

\* The documents of the collection and the groups of every session's list.
ObservableGroups ==
    {db[id] : id \in ExistingIds} \cup
    UNION {{groups[c][i] : i \in 1..Len(groups[c])} : c \in Clients}

\* The member reached from m after k steps along giver -> recipient.
RECURSIVE Follow(_, _, _)
Follow(assignments, m, k) ==
    IF k = 0 THEN m ELSE Follow(assignments, assignments[m].recipientId, k - 1)

\* C1: the assignments handleRunDraw computes from a group of n >= 2
\* members are, for every outcome of the shuffle, a bijection on memberIds
\* without fixed point that is one cycle: from any member the chain visits
\* all n members and is back at the start after n steps.
C1_IsSingleCycle(assignments, S) ==
    /\ IsPermutationOf(assignments, S)
    /\ NoFixedPoint(assignments)
    /\ \A m \in S :
        /\ {Follow(assignments, m, k) : k \in 0..(Cardinality(S) - 1)} = S
        /\ Follow(assignments, m, Cardinality(S)) = m

C1_DrawIsSingleCycle ==
    \A c \in Clients :
        drawOp[c].stage = "write" =>
            /\ Len(drawOp[c].group.memberIds) >= 2
            /\ C1_IsSingleCycle(drawOp[c].assignments, Members(drawOp[c].group))

\* A draw computed over a group of four members.
C1_Witness ==
    \E c \in Clients :
        /\ drawOp[c].stage = "write"
        /\ Len(drawOp[c].group.memberIds) = 4
        /\ DOMAIN drawOp[c].assignments = Members(drawOp[c].group)

\* C2: whenever a group document has assignments, they are a permutation of
\* the document's current memberIds without fixed points.
C2_AssignmentsPermuteCurrentMembers ==
    \A id \in ExistingIds :
        db[id].assignments # <<>> =>
            /\ IsPermutationOf(db[id].assignments[1], Members(db[id]))
            /\ NoFixedPoint(db[id].assignments[1])

\* C3: a step that changes a document's assignments or drawRunAt or deletes
\* the document applies a write issued by the user whose id is the
\* document's ownerId; and a call of handleRunDraw or handleDeleteGroup by
\* any other user changes no document and issues no write.
C3_OwnerWrites(id) ==
    \E c \in Clients :
        \/ /\ drawOp[c].stage = "write" /\ drawOp'[c].stage = "ack"
           /\ drawOp[c].id = id
           /\ drawOp[c].uid = db[id].ownerId
        \/ /\ deleteOp[c].stage = "write" /\ deleteOp'[c].stage = "ack"
           /\ deleteOp[c].id = id
           /\ deleteOp[c].uid = db[id].ownerId

C3_OwnerOnly ==
    [][/\ \A id \in ExistingIds :
            (\/ ~db'[id].exists
             \/ db'[id].assignments # db[id].assignments
             \/ db'[id].drawRunAt # db[id].drawRunAt) => C3_OwnerWrites(id)
       /\ (/\ lastCall'.handler \in {"draw", "delete"}
           /\ user[lastCall'.client] # <<lastCall'.arg.ownerId>>)
          => /\ db' = db
             /\ drawOp' = drawOp
             /\ deleteOp' = deleteOp
             /\ drawOp[lastCall'.client].stage = "idle"
             /\ deleteOp[lastCall'.client].stage = "idle"]_vars

\* A member who is not the owner has just called a handler on a group whose
\* owner has drawn.
C3_Witness ==
    /\ lastCall.handler \in {"draw", "delete"}
    /\ user[lastCall.client] # <<lastCall.arg.ownerId>>
    /\ user[lastCall.client][1] \in Members(lastCall.arg)
    /\ db[lastCall.arg.id].exists
    /\ db[lastCall.arg.id].assignments # <<>>
    /\ drawOp[lastCall.client].stage = "idle"

\* C4: no user id occurs twice in memberIds, in the documents and in the
\* lists of the sessions, also when two sessions of one user join at once.
C4_NoDuplicateMembers ==
    \A g \in ObservableGroups : Cardinality(Members(g)) = Len(g.memberIds)

\* Two sessions of one user, each having read the group without the user,
\* have both had their join applied.
C4_Witness ==
    \E c1 \in Clients, c2 \in Clients :
        /\ c1 # c2
        /\ joinOp[c1].stage = "ack" /\ joinOp[c2].stage = "ack"
        /\ joinOp[c1].id = joinOp[c2].id
        /\ joinOp[c1].uid = joinOp[c2].uid
        /\ joinOp[c1].uid \notin Members(joinOp[c1].data)
        /\ joinOp[c1].uid \notin Members(joinOp[c2].data)
        /\ joinOp[c1].uid \in Members(db[joinOp[c1].id])

\* C6: of two sessions of one user that join the same group, the second
\* fails with AlreadyMember: it reports no success and its write is never
\* issued, so no two sessions of one user both report a successful join.
C6_SecondJoinFails ==
    \A c1 \in Clients, c2 \in Clients :
        (c1 # c2 /\ user[c1] = user[c2]) =>
            /\ ~(joinSuccess[c1] = MsgJoined /\ joinSuccess[c2] = MsgJoined)
            /\ ~(/\ joinOp[c1].stage \in {"write", "ack"}
                 /\ joinOp[c2].stage \in {"write", "ack"}
                 /\ joinOp[c1].id = joinOp[c2].id)

\* C5: the store's application of a join adds the joiner to memberIds with
\* the joiner's profile and responses and keeps every other member's id,
\* profile and responses, whatever the join had read; and the join then
\* reports success.
C5_JoinApplied(c) ==
    LET before == db[joinOp[c].id]
        after == db'[joinOp[c].id]
        uid == joinOp[c].uid
    IN  /\ after.exists
        /\ uid \in Members(after)
        /\ uid \in DOMAIN after.members
        /\ after.members[uid] = ProfileOf(UserRecord(uid))
        /\ uid \in DOMAIN after.memberResponses
        /\ after.memberResponses[uid] = joinOp[c].joinResponses
        /\ \A v \in Members(before) \ {uid} :
            /\ v \in Members(after)
            /\ v \in DOMAIN after.members
            /\ after.members[v] = before.members[v]
            /\ v \in DOMAIN before.memberResponses =>
                   /\ v \in DOMAIN after.memberResponses
                   /\ after.memberResponses[v] = before.memberResponses[v]

C5_ConcurrentJoinsMerge ==
    [][\A c \in Clients :
        /\ (joinOp[c].stage = "write" /\ joinOp'[c].stage = "ack") => C5_JoinApplied(c)
        /\ (joinOp[c].stage = "ack" /\ joinOp'[c].stage = "idle") =>
               joinSuccess'[c] = MsgJoined /\ joinError'[c] = <<>>]_vars

\* Two different users' joins of one group, each read before the other's
\* write was applied, both applied: the document holds both.
C5_Witness ==
    \E c1 \in Clients, c2 \in Clients :
        /\ joinOp[c1].stage = "ack" /\ joinOp[c2].stage = "ack"
        /\ joinOp[c1].id = joinOp[c2].id
        /\ joinOp[c1].uid # joinOp[c2].uid
        /\ joinOp[c1].uid \notin Members(joinOp[c2].data)
        /\ joinOp[c2].uid \notin Members(joinOp[c1].data)
        /\ db[joinOp[c1].id].exists
        /\ {joinOp[c1].uid, joinOp[c2].uid} \subseteq Members(db[joinOp[c1].id])
        /\ {joinOp[c1].uid, joinOp[c2].uid} \subseteq DOMAIN db[joinOp[c1].id].members
        /\ {joinOp[c1].uid, joinOp[c2].uid} \subseteq
               DOMAIN db[joinOp[c1].id].memberResponses

\* C7: in every document and in every group of a session's list, each id
\* of memberIds has a profile in members, and each id other than the
\* owner's (the ids that entered through a join) has an entry in
\* memberResponses.
C7_NoTornMembership ==
    \A g \in ObservableGroups :
        \A m \in Members(g) :
            /\ m \in DOMAIN g.members
            /\ m # g.ownerId => m \in DOMAIN g.memberResponses

\* A session's list shows a group with a joined member.
C7_Witness ==
    \E c \in Clients : \E i \in 1..Len(groups[c]) :
        /\ \E m \in Members(groups[c][i]) : m # groups[c][i].ownerId
        /\ C7_NoTornMembership

\* A text of spaces only (or empty).
IsBlankText(text) == \A i \in 1..Len(text) : text[i] = " "

\* The schema's fields that the responses leave out or answer with a blank.
BlankFields(fields, joinResponses) ==
    LET Blank(field) ==
            \/ field.id \notin DOMAIN joinResponses
            \/ IsBlankText(joinResponses[field.id])
    IN  SelectSeq(fields, Blank)

\* C8: a join of an existing group by a user who is not yet a member, with
\* a missing or blank answer to some custom field, sets joinError to the
\* labels of exactly the blank fields in schema order, reports no success,
\* issues no write and leaves every document as it is.
C8_IncompleteResponses ==
    [][lastCall'.handler = "join" =>
        LET c == lastCall'.client
            data == Lookup(db, Trim(lastCall'.arg.codeInput))
            blank == IF data.exists
                     THEN BlankFields(FieldsOf(data), lastCall'.arg.joinResponses)
                     ELSE <<>>
        IN  (/\ data.exists
             /\ user[c][1] \notin Members(data)
             /\ blank # <<>>)
            => /\ joinError'[c] = MsgFillOut \o [i \in 1..Len(blank) |-> blank[i].label]
               /\ joinSuccess'[c] = <<>>
               /\ joinOp'[c] = Idle
               /\ ~isJoining'[c]
               /\ db' = db]_vars

\* A join that answered the first of two fields and left the second blank.
C8_Witness ==
    /\ lastCall.handler = "join"
    /\ Lookup(db, Trim(lastCall.arg.codeInput)).exists
    /\ joinError[lastCall.client] = MsgFillOut \o <<Field2.label>>
    /\ user[lastCall.client][1] \notin
           Members(Lookup(db, Trim(lastCall.arg.codeInput)))

\* C10: a join on a code with no document sets joinError to NotFound, a
\* join by a user who is in the memberIds it read sets it to AlreadyMember;
\* both report no success, issue no write and leave the collection as it
\* is (no document created or changed).
C10_NotFoundAlreadyMember ==
    [][lastCall'.handler = "join" =>
        LET c == lastCall'.client
            code == Trim(lastCall'.arg.codeInput)
            data == Lookup(db, code)
        IN  /\ (code # <<>> /\ ~data.exists) =>
                   /\ joinError'[c] = MsgNotFound
                   /\ joinSuccess'[c] = <<>>
                   /\ joinOp'[c] = Idle /\ ~isJoining'[c]
                   /\ db' = db /\ nextDoc' = nextDoc
            /\ (data.exists /\ user[c][1] \in Members(data)) =>
                   /\ joinError'[c] = MsgAlreadyMember
                   /\ joinSuccess'[c] = <<>>
                   /\ joinOp'[c] = Idle /\ ~isJoining'[c]
                   /\ db' = db /\ nextDoc' = nextDoc]_vars

\* One session was told NotFound, and a member who had joined has just
\* been told AlreadyMember.
C10_Witness ==
    /\ \E c \in Clients : joinError[c] = MsgNotFound
    /\ lastCall.handler = "join"
    /\ joinError[lastCall.client] = MsgAlreadyMember
    /\ LET data == Lookup(db, Trim(lastCall.arg.codeInput))
       IN  /\ data.exists
           /\ user[lastCall.client][1] \in Members(data)
           /\ user[lastCall.client][1] # data.ownerId

\* C9: a draw the owner starts on a group with fewer than two memberIds
\* sets drawError, reports no success, issues no write and leaves every
\* document as it is.
C9_TooFewMembers ==
    [][(/\ lastCall'.handler = "draw"
        /\ user[lastCall'.client] = <<lastCall'.arg.ownerId>>
        /\ Len(lastCall'.arg.memberIds) < 2)
       => /\ drawError'[lastCall'.client] = MsgTwoMembers
          /\ drawSuccess'[lastCall'.client] = <<>>
          /\ drawOp'[lastCall'.client] = Idle
          /\ ~isRunningDraw'[lastCall'.client]
          /\ db' = db
          /\ clock' = clock]_vars

C9_Witness ==
    /\ lastCall.handler = "draw"
    /\ user[lastCall.client] = <<lastCall.arg.ownerId>>
    /\ Len(lastCall.arg.memberIds) < 2
    /\ drawError[lastCall.client] = MsgTwoMembers
    /\ db[lastCall.arg.id].exists
    /\ db[lastCall.arg.id].assignments = <<>>

\* C11: a create by a signed-in user with a name that is not blank, for
\* every list of custom fields (the empty list too), issues addDoc; the
\* store then holds exactly one new document, owned by the creator, with
\* memberIds [creator], the creator's profile, no assignments, no drawRunAt
\* and empty memberResponses; and the create then reports success.
C11_NewDocument(c) ==
    LET id == createOp'[c].id
        uid == createOp[c].uid
    IN  /\ ~db[id].exists /\ db'[id].exists
        /\ \A d \in DocIdSet \ {id} : db'[d] = db[d]
        /\ db'[id].ownerId = uid
        /\ db'[id].memberIds = <<uid>>
        /\ DOMAIN db'[id].members = {uid}
        /\ db'[id].members[uid] =
               [displayName |-> db'[id].ownerName, photoURL |-> db'[id].ownerPhotoURL]
        /\ db'[id].assignments = <<>>
        /\ db'[id].drawRunAt = <<>>
        /\ DOMAIN db'[id].memberResponses = {}

C11_CreatePersistsGroup ==
    [][/\ (/\ lastCall'.handler = "create"
           /\ ~IsBlankText(lastCall'.arg.nameInput))
          => /\ createOp'[lastCall'.client].stage = "write"
             /\ createOp'[lastCall'.client].uid = user[lastCall'.client][1]
             /\ createError'[lastCall'.client] = <<>>
       /\ \A c \in Clients :
           /\ (createOp[c].stage = "write" /\ createOp'[c].stage = "ack")
                  => C11_NewDocument(c)
           /\ (createOp[c].stage = "ack" /\ createOp'[c].stage = "idle")
                  => /\ createSuccess'[c] = MsgCreated
                     /\ createError'[c] = <<>>]_vars

\* C12: a create whose name is empty or white space only sets createError to
\* the name-first message, reports no success, issues no addDoc (no document
\* is created) and leaves isCreatingGroup false.
C12_BlankNameRejected ==
    [][(/\ lastCall'.handler = "create"
        /\ IsBlankText(lastCall'.arg.nameInput))
       => /\ createError'[lastCall'.client] = MsgNameFirst
          /\ createSuccess'[lastCall'.client] = <<>>
          /\ createOp'[lastCall'.client] = Idle
          /\ ~isCreatingGroup'[lastCall'.client]
          /\ db' = db /\ nextDoc' = nextDoc]_vars

\* A user has just submitted a name of one space.
C12_Witness ==
    /\ lastCall.handler = "create"
    /\ lastCall.arg.nameInput = <<" ">>
    /\ createError[lastCall.client] = MsgNameFirst
    /\ ~isCreatingGroup[lastCall.client]
    /\ createOp[lastCall.client] = Idle

\* The ids of the groups of a session's list.
ListIds(list) == {list[i].id : i \in 1..Len(list)}

\* The id of the first group of a list, or null.
FirstId(list) == IF list = <<>> THEN <<>> ELSE <<list[1].id>>

\* C13: in every state the selected id is the id of a group of the
\* session's list when the list is not empty and null exactly when it is
\* empty, and selectedGroup is a group of the list; a delivery that leaves
\* the selected id in the list keeps it, a delivery that drops it selects
\* the first group of the new list, and so does the reset after a delete.
C13_Valid(c) ==
    /\ (groups[c] = <<>>) <=> (selectedGroupId[c] = <<>>)
    /\ groups[c] # <<>> => selectedGroupId[c][1] \in ListIds(groups[c])
    /\ groups[c] # <<>> =>
           /\ SelectedGroup(c) # <<>>
           /\ \E i \in 1..Len(groups[c]) : groups[c][i] = SelectedGroup(c)[1]
           /\ SelectedGroup(c)[1].id = selectedGroupId[c][1]

C13_SelectionNeverStale ==
    /\ [](\A c \in Clients : C13_Valid(c))
    /\ [][\A c \in Clients :
            /\ groups'[c] # groups[c] =>
                   IF selectedGroupId[c] # <<>>
                      /\ selectedGroupId[c][1] \in ListIds(groups'[c])
                   THEN selectedGroupId'[c] = selectedGroupId[c]
                   ELSE selectedGroupId'[c] = FirstId(groups'[c])
            /\ (deleteOp[c].stage = "ack" /\ deleteOp'[c].stage = "idle") =>
                   selectedGroupId'[c] = FirstId(groups'[c])]_vars

\* A member's list has lost the older group, which the owner deleted, and
\* the selection is on the group that is left.
C13_Witness ==
    /\ ~db[DocIds[Len(DocIds)]].exists
    /\ groups["c2"] # <<>>
    /\ ListIds(groups["c2"]) = {DocIds[1]}
    /\ selectedGroupId["c2"] = <<DocIds[1]>>
    /\ Len(groups["c1"]) = 2

\* C14: once the owner's deleteDoc has been applied there is no document at
\* the id, and eventually every subscribed session has a list without the
\* group and a selection that is not the group.
C14_Deleted(id) ==
    \E c \in Clients : deleteOp[c].stage = "ack" /\ deleteOp[c].id = id

C14_DeletePropagates ==
    /\ [](\A id \in DocIdSet : C14_Deleted(id) => ~db[id].exists)
    /\ \A id \in DocIdSet :
           C14_Deleted(id) ~>
               (/\ ~db[id].exists
                /\ \A c \in Watchers :
                    /\ id \notin ListIds(groups[c])
                    /\ selectedGroupId[c] # <<id>>)

\* The older group is deleted and both members' lists, which still show
\* the other group, have lost it.
C14_Witness ==
    /\ C14_Deleted(DocIds[Len(DocIds)])
    /\ \A c \in Watchers :
        /\ groups[c] # <<>>
        /\ DocIds[Len(DocIds)] \notin ListIds(groups[c])
        /\ selectedGroupId[c] # <<DocIds[Len(DocIds)]>>

\* C20: the list a delivery sets holds every document of the collection
\* that lists the user, each once, with the document's fields; the groups
\* with a timestamp are in descending order of createdAt and every group
\* whose createdAt is null comes after all of them.
C20_Delivered(c) ==
    LET list == groups'[c]
        uid == user[c][1]
    IN  /\ \A id \in ExistingIds : uid \in Members(db[id]) => id \in ListIds(list)
        /\ Cardinality(ListIds(list)) = Len(list)
        /\ \A i \in 1..Len(list) :
            \/ /\ list[i].id \in ExistingIds
               /\ list[i].memberIds = db[list[i].id].memberIds
               /\ list[i].createdAt = db[list[i].id].createdAt
               /\ list[i].assignments = db[list[i].id].assignments
            \/ list[i].createdAt = <<>>
        /\ \A i \in 1..Len(list), j \in 1..Len(list) :
            /\ (/\ i < j /\ list[i].createdAt # <<>> /\ list[j].createdAt # <<>>)
                   => list[i].createdAt[1] >= list[j].createdAt[1]
            /\ (list[i].createdAt = <<>> /\ list[j].createdAt # <<>>) => j < i

C20_ListSortedNewestFirst ==
    [][\A c \in Clients : groups'[c] # groups[c] => C20_Delivered(c)]_vars

\* The creator's list shows the older group first and the group being
\* created, whose createdAt is still null, after it.
C20_Witness ==
    \E c \in Clients :
        /\ Len(groups[c]) = 2
        /\ groups[c][1].createdAt # <<>>
        /\ groups[c][2].createdAt = <<>>
        /\ createOp[c].stage = "write"

\* C15: the store's application of a draw sets assignments to exactly the
\* map that draw computed and drawRunAt to the server time, in one step; a
\* step changes assignments only together with drawRunAt; so after two
\* draws awaited at once the stored map is the whole map of the draw
\* applied last.
C15_DrawReplacesWholesale ==
    [][/\ \A c \in Clients :
            (drawOp[c].stage = "write" /\ drawOp'[c].stage = "ack") =>
                /\ db'[drawOp[c].id].assignments = <<drawOp[c].assignments>>
                /\ db'[drawOp[c].id].drawRunAt = <<clock'>>
                /\ db'[drawOp[c].id].drawRunAt # db[drawOp[c].id].drawRunAt
       /\ \A id \in ExistingIds :
            (/\ db'[id].exists
             /\ \/ db'[id].assignments # db[id].assignments
                \/ db'[id].drawRunAt # db[id].drawRunAt)
            => \E c \in Clients :
                /\ drawOp[c].stage = "write" /\ drawOp'[c].stage = "ack"
                /\ drawOp[c].id = id
                /\ db'[id].assignments = <<drawOp[c].assignments>>
                /\ db'[id].drawRunAt # db[id].drawRunAt]_vars

\* Both of the organizer's sessions await a draw the store has applied; the
\* two maps differ and the document holds one of them whole.
C15_Witness ==
    /\ drawOp["c1"].stage = "ack" /\ drawOp["c2"].stage = "ack"
    /\ drawOp["c1"].assignments # drawOp["c2"].assignments
    /\ db[DocIds[1]].drawRunAt = <<2>>
    /\ db[DocIds[1]].assignments \in
           {<<drawOp["c1"].assignments>>, <<drawOp["c2"].assignments>>}

\* The states of the groups a member's session can hold: the documents of
\* the collection and the groups of the sessions' lists.
C16_Groups ==
    {GroupOf(id, db[id]) : id \in ExistingIds} \cup
    UNION {{groups[c][i] : i \in 1..Len(groups[c])} : c \in Clients}

\* Two states of a group that differ at most in the assignments of the
\* members other than uid: the same givers, the same assignment for uid.
C16_SameForMember(g1, g2, uid) ==
    /\ [g1 EXCEPT !.assignments = <<>>, !.drawRunAt = <<>>] =
           [g2 EXCEPT !.assignments = <<>>, !.drawRunAt = <<>>]
    /\ (g1.assignments = <<>>) <=> (g2.assignments = <<>>)
    /\ g1.assignments # <<>> =>
           /\ DOMAIN g1.assignments[1] = DOMAIN g2.assignments[1]
           /\ uid \in DOMAIN g1.assignments[1] =>
                  g1.assignments[1][uid] = g2.assignments[1][uid]

\* C16: what a member's view shows of the assignments (the match panel
\* and the roster with its badges) is the same for any two states of a
\* group that agree on the member's own assignment and on which members
\* have one, whatever the other members' recipients are.
C16_OnlyOwnGiftee ==
    \A uid \in Users : \A g1 \in C16_Groups, g2 \in C16_Groups :
        C16_SameForMember(g1, g2, uid) =>
            /\ MatchPanel(g1, uid) = MatchPanel(g2, uid)
            /\ Roster(g1) = Roster(g2)

\* Two states of the party in which the same member gives to the same
\* recipient while the others' recipients differ.
C16_Witness ==
    \E uid \in Users : \E g1 \in C16_Groups, g2 \in C16_Groups :
        /\ C16_SameForMember(g1, g2, uid)
        /\ g1.assignments # <<>>
        /\ uid \in DOMAIN g1.assignments[1]
        /\ g1.assignments # g2.assignments
        /\ MatchPanel(g1, uid).recipientName = g1.assignments[1][uid].recipientName

\* C17: a call of handleRunDraw or handleDeleteGroup by a user who is not
\* the group's owner ends with an error set in the session (drawError for
\* the draw, deleteError for the delete), so that the session's state
\* differs from the state before the call.
C17_ForbiddenIsSurfaced ==
    [][(/\ lastCall'.handler \in {"draw", "delete"}
        /\ user[lastCall'.client] # <<lastCall'.arg.ownerId>>)
       => /\ lastCall'.handler = "draw" => drawError'[lastCall'.client] # <<>>
          /\ lastCall'.handler = "delete" => deleteError'[lastCall'.client] # <<>>
          /\ <<drawError', drawSuccess', deleteError', isRunningDraw', isDeletingGroup'>>
                 # <<drawError, drawSuccess, deleteError, isRunningDraw, isDeletingGroup>>]_vars

\* C18: when the store rejects the read or the write a handler awaits, the
\* handler's catch sets its own error message, no success message is set,
\* the in-progress flag is cleared, nothing is left awaited and the
\* collection is as it was.
C18_FailuresAreCaught ==
    [][/\ \A c \in Clients :
           /\ (createOp[c].stage = "write" /\ createOp'[c].stage = "idle") =>
                  /\ createError'[c] = MsgCreateFailed
                  /\ createSuccess'[c] = <<>>
                  /\ ~isCreatingGroup'[c]
                  /\ db' = db
           /\ (joinOp[c].stage = "write" /\ joinOp'[c].stage = "idle") =>
                  /\ joinError'[c] = MsgJoinFailed
                  /\ joinSuccess'[c] = <<>>
                  /\ ~isJoining'[c]
                  /\ db' = db
           /\ (drawOp[c].stage = "write" /\ drawOp'[c].stage = "idle") =>
                  /\ drawError'[c] = MsgDrawFailed
                  /\ drawSuccess'[c] = <<>>
                  /\ ~isRunningDraw'[c]
                  /\ db' = db
           /\ (deleteOp[c].stage = "write" /\ deleteOp'[c].stage = "idle") =>
                  /\ deleteError'[c] = MsgDeleteFailed
                  /\ ~isDeletingGroup'[c]
                  /\ db' = db
       /\ (lastCall'.handler = "join" /\ lastCall'.path = "getDoc rejected") =>
              /\ joinError'[lastCall'.client] = MsgJoinFailed
              /\ joinSuccess'[lastCall'.client] = <<>>
              /\ ~isJoining'[lastCall'.client]
              /\ joinOp'[lastCall'.client] = Idle
              /\ db' = db]_vars

\* The organizer's delete and a member's join were both rejected: each
\* session shows its error, can retry, and the group is still there.
C18_Witness ==
    /\ deleteError["c1"] = MsgDeleteFailed
    /\ ~isDeletingGroup["c1"] /\ deleteOp["c1"] = Idle
    /\ joinError["c2"] = MsgJoinFailed
    /\ ~isJoining["c2"] /\ joinOp["c2"] = Idle
    /\ db[DocIds[1]].exists

\* C19: a session has at most one active subscription, and it is the one
\* of the signed-in user; signed out it has none and its list is empty;
\* and a step that changes the list of a signed-in session sets it to
\* groups of that user only, never to a delivery for an earlier user.
C19_OneSubscription ==
    /\ [](\A c \in Clients :
            /\ Cardinality(listeners[c]) <= 1
            /\ user[c] = <<>> => listeners[c] = {} /\ groups[c] = <<>>
            /\ user[c] # <<>> => listeners[c] = {user[c][1]})
    /\ [][\A c \in Clients :
            groups'[c] # groups[c] =>
                \A i \in 1..Len(groups'[c]) :
                    /\ user'[c] # <<>>
                    /\ user'[c][1] \in Members(groups'[c][i])]_vars

\* A session that signed in as u1 lists u1's groups and not the group
\* that u2 alone is a member of.
C19_Witness ==
    \E c \in Clients :
        /\ user[c] = <<"u1">>
        /\ listeners[c] = {"u1"}
        /\ groups[c] # <<>>
        /\ \E d \in ExistingIds : "u2" \in Members(db[d]) /\ d \notin ListIds(groups[c])
        /\ \A i \in 1..Len(groups[c]) : "u1" \in Members(groups[c][i])

\* C21: a step in which a session's subscription ends while its user stays
\* is the failure of the feed: it sets groupsError and leaves the list and
\* the selection as they were.  A step that changes the list of a session
\* whose user and subscription stay is a delivery: it ends with groupsError
\* null.  groupsError is cleared by nothing but a callback of a live
\* subscription, so a set groupsError means no list was delivered since the
\* failure, an empty one included.
C21_Failed(c) ==
    /\ user'[c] = user[c]
    /\ listeners'[c] # listeners[c]

C21_Delivered(c) ==
    /\ user'[c] = user[c]
    /\ listeners'[c] = listeners[c]
    /\ groups'[c] # groups[c]

C21_FeedErrorIsDistinct ==
    [][\A c \in Clients :
        /\ C21_Failed(c) =>
               /\ groupsError'[c] = MsgGroupsFailed
               /\ groups'[c] = groups[c]
               /\ selectedGroupId'[c] = selectedGroupId[c]
        /\ C21_Delivered(c) => groupsError'[c] = <<>>
        /\ (groupsError[c] # <<>> /\ groupsError'[c] = <<>>) =>
               /\ listeners[c] # {}
               /\ listeners'[c] = listeners[c]
               /\ user'[c] = user[c]
               /\ \E uid \in listeners[c] : \A i \in 1..Len(groups'[c]) :
                      Includes(groups'[c][i].memberIds, uid)]_vars

\* One session shows the error over the list it had when its feed failed;
\* the other, subscribed for a user without groups, shows an empty list
\* and no error.
C21_Witness ==
    \E c, d \in Watchers :
        /\ groupsError[c] = MsgGroupsFailed /\ groups[c] # <<>> /\ listeners[c] = {}
        /\ user[d] = <<"u3">> /\ listeners[d] # {}
        /\ groupsError[d] = <<>> /\ groups[d] = <<>>

\* C22: loadGroupFields awaits a lookup only for a trimmed code of at least
\* 20 characters, and for every such code; for a shorter code it empties the
\* schema and the answers at once.  A lookup that resolves sets the schema
\* to the customFields of the document at the code, with an empty answer
\* for each field; it sets an empty schema and no answers when there is no
\* document or the document has no custom fields.  A lookup that rejects
\* sets an empty schema and no answers, and changes nothing else of the
\* session: no error message is set.
C22_Loads(path) ==
    /\ lastCall'.handler = "loadGroupFields"
    /\ lastCall'.path = path

C22_Schema(data) ==
    IF data.exists /\ data.customFields # <<>> THEN data.customFields[1] ELSE <<>>

C22_FormIs(form, fields) ==
    /\ form.joinGroupFields = fields
    /\ DOMAIN form.joinResponses = {fields[i].id : i \in 1..Len(fields)}
    /\ \A id \in DOMAIN form.joinResponses : form.joinResponses[id] = <<>>

C22_SchemaLookup ==
    [][\A c \in FormClients :
        /\ lookups'[c] # lookups[c] /\ BagCardinality(lookups'[c]) > BagCardinality(lookups[c]) =>
               /\ C22_Loads("getDoc")
               /\ Len(Trim(lastCall'.arg)) >= 20
               /\ lookups'[c] = lookups[c] (+) SetToBag({Trim(lastCall'.arg)})
        /\ C22_Loads("getDoc") => lookups'[c] # lookups[c]
        /\ C22_Loads("too short") =>
               /\ Len(Trim(lastCall'.arg)) < 20
               /\ lookups'[c] = lookups[c]
               /\ C22_FormIs(joinForm'[c], <<>>)
        /\ C22_Loads("getDoc resolved") =>
               C22_FormIs(joinForm'[c], C22_Schema(Lookup(db, lastCall'.arg)))
        /\ C22_Loads("getDoc rejected") =>
               /\ C22_FormIs(joinForm'[c], <<>>)
               /\ UNCHANGED <<joinVars, createVars, viewVars, feedVars>>]_vars

\* The code of the older group, which has a field, is in the form; its
\* lookup was rejected and the form shows no schema.
C22_Witness ==
    \E c \in FormClients :
        /\ lastCall.handler = "loadGroupFields"
        /\ lastCall.path = "getDoc rejected"
        /\ lastCall.arg = DocIds[Len(DocIds)]
        /\ Trim(joinForm[c].joinCode) = DocIds[Len(DocIds)]
        /\ db[DocIds[Len(DocIds)]].customFields # <<>>
        /\ joinForm[c].joinGroupFields = <<>>

\* C25: when no schema lookup of a session is awaited, the schema its join
\* form shows is that of the group the trimmed join code names (none for a
\* shorter code or a code of no group), or no schema at all, and the form's
\* answers are keyed by fields of that schema.
C25_Expected(c) ==
    IF Len(Trim(joinForm[c].joinCode)) >= 20
    THEN C22_Schema(Lookup(db, Trim(joinForm[c].joinCode)))
    ELSE <<>>

C25_FormFollowsCode ==
    \A c \in FormClients :
        lookups[c] = EmptyBag =>
            /\ joinForm[c].joinGroupFields \in {C25_Expected(c), <<>>}
            /\ DOMAIN joinForm[c].joinResponses \subseteq
                   {C25_Expected(c)[i].id : i \in 1..Len(C25_Expected(c))}

\* C23: the step in which the store applies a draw's updateDoc leaves
\* memberIds, members, memberResponses, ownerId and customFields of the
\* document as they were; the step in which it applies a join's updateDoc
\* leaves assignments, drawRunAt, ownerId and customFields as they were,
\* and the profile and the answers of every other member.  When a join and
\* a draw on one group have both been applied, in either order, the joiner
\* is in memberIds with the profile and the answers of the join and the
\* stored assignments are those of the draw.
C23_DrawCommit(c) == drawOp[c].stage = "write" /\ drawOp'[c].stage = "ack"

C23_JoinCommit(c) == joinOp[c].stage = "write" /\ joinOp'[c].stage = "ack"

C23_OthersKept(before, after, uid) ==
    \A m \in DOMAIN before \ {uid} : m \in DOMAIN after /\ after[m] = before[m]

C23_Frames ==
    \A c \in Clients :
        /\ C23_DrawCommit(c) =>
               LET old == db[drawOp[c].id]
                   new == db'[drawOp[c].id]
               IN  /\ new.exists
                   /\ new.memberIds = old.memberIds
                   /\ new.members = old.members
                   /\ new.memberResponses = old.memberResponses
                   /\ new.ownerId = old.ownerId
                   /\ new.customFields = old.customFields
        /\ C23_JoinCommit(c) =>
               LET old == db[joinOp[c].id]
                   new == db'[joinOp[c].id]
               IN  /\ new.exists
                   /\ new.assignments = old.assignments
                   /\ new.drawRunAt = old.drawRunAt
                   /\ new.ownerId = old.ownerId
                   /\ new.customFields = old.customFields
                   /\ C23_OthersKept(old.members, new.members, joinOp[c].uid)
                   /\ C23_OthersKept(old.memberResponses, new.memberResponses,
                                     joinOp[c].uid)

C23_BothApplied(c, d) ==
    /\ joinOp[c].stage = "ack"
    /\ drawOp[d].stage = "ack"
    /\ joinOp[c].id = drawOp[d].id
    /\ db[joinOp[c].id].exists

C23_TargetedUpdates ==
    /\ [][C23_Frames]_vars
    /\ [](\A c, d \in Clients :
            C23_BothApplied(c, d) =>
                LET data == db[joinOp[c].id]
                    uid == joinOp[c].uid
                IN  /\ \E i \in 1..Len(data.memberIds) : data.memberIds[i] = uid
                    /\ uid \in DOMAIN data.members
                    /\ data.members[uid] = ProfileOf(UserRecord(uid))
                    /\ uid \in DOMAIN data.memberResponses
                    /\ data.memberResponses[uid] = joinOp[c].joinResponses
                    /\ data.assignments = <<drawOp[d].assignments>>)

\* A join and a draw on the group are both applied and not yet
\* acknowledged; the draw was computed over a list without the joiner, who
\* had answered the group's field.
C23_Witness ==
    \E c, d \in Clients :
        /\ C23_BothApplied(c, d)
        /\ joinOp[c].uid \notin DOMAIN drawOp[d].assignments
        /\ joinOp[c].joinResponses # EmptyObj
        /\ Len(db[joinOp[c].id].memberIds) >= 3

\* C24: every step that changes a session's selected id ends with that
\* session's drawError, drawSuccess and deleteError null, and changes no
\* document.
C24_SelectionChangeClears ==
    [][\A c \in Clients :
        selectedGroupId'[c] # selectedGroupId[c] =>
            /\ drawError'[c] = <<>>
            /\ drawSuccess'[c] = <<>>
            /\ deleteError'[c] = <<>>
            /\ db' = db]_vars

\* The organizer's draw on the older group was applied and acknowledged,
\* which set drawSuccess; the organizer has since selected another group
\* of its list and no draw message is left.
C24_Witness ==
    \E c \in Organizers :
        /\ db[DocIds[Len(DocIds)]].exists
        /\ db[DocIds[Len(DocIds)]].drawRunAt # <<>>
        /\ drawOp[c].stage = "idle"
        /\ selectedGroupId[c] # <<>>
        /\ selectedGroupId[c] # <<DocIds[Len(DocIds)]>>
        /\ SelectedGroup(c) # <<>>
        /\ drawSuccess[c] = <<>>
        /\ drawError[c] = <<>>

\* C29: when an awaited draw completes and the session then shows a draw
\* message in the panel of its selected group, the selected group is the
\* group the draw was run on.
C29_Completes(c) == drawOp[c].stage # "idle" /\ drawOp'[c].stage = "idle"

C29_DrawMessageOfSelected ==
    [][\A c \in Clients :
        (/\ C29_Completes(c)
         /\ drawError'[c] # <<>> \/ drawSuccess'[c] # <<>>
         /\ \E i \in 1..Len(groups'[c]) : <<groups'[c][i].id>> = selectedGroupId'[c])
        => selectedGroupId'[c] = <<drawOp[c].id>>]_vars

\* C26: a session that awaits no deleteDoc has isDeletingGroup false,
\* whether its last delete succeeded, failed or was declined.
C26_DeleteFlagReset ==
    \A c \in Clients : deleteOp[c].stage = "idle" => ~isDeletingGroup[c]

\* C27: when the group a session created or joined appears in the
\* session's list after the create or the join has succeeded, it is the
\* selected group from then on.  Here the organizer creates and the member
\* joins one group, the one under the id the store handed out last.
C27_Succeeded(c) ==
    \/ createOp[c].stage = "idle" /\ createSuccess[c] = MsgCreated
    \/ joinOp[c].stage = "idle" /\ joinSuccess[c] = MsgJoined

C27_Appears(c, id) ==
    /\ id \notin ListIds(groups[c])
    /\ id \in ListIds(groups'[c])

C27_NewGroupSelected ==
    [][\A c \in Watchers :
        (nextDoc >= 1 /\ C27_Succeeded(c) /\ C27_Appears(c, DocIds[nextDoc]))
        => selectedGroupId'[c] = <<DocIds[nextDoc]>>]_vars

\* C28: a document comes into existence only at the fresh id of an addDoc,
\* so a deleted group is never recreated; a join or a draw whose updateDoc
\* reaches the store when its group has no document ends with the
\* collection as it was, nothing awaited, its error message set and no
\* success message.
C28_Late(op) == op.stage = "write" /\ ~db[op.id].exists

C28_DeletedStaysDeleted ==
    [][/\ \A id \in DocIdSet :
            (~db[id].exists /\ db'[id].exists) =>
                nextDoc' = nextDoc + 1 /\ id = DocIds[nextDoc']
       /\ \A c \in Clients :
            /\ (C28_Late(joinOp[c]) /\ joinOp'[c] # joinOp[c]) =>
                   /\ db' = db
                   /\ joinOp'[c].stage = "idle"
                   /\ joinError'[c] = MsgJoinFailed
                   /\ joinSuccess'[c] = <<>>
            /\ (C28_Late(drawOp[c]) /\ drawOp'[c] # drawOp[c]) =>
                   /\ db' = db
                   /\ drawOp'[c].stage = "idle"
                   /\ drawError'[c] = MsgDrawFailed
                   /\ drawSuccess'[c] = <<>>]_vars

\* The group was created and deleted; a member's join and the owner's draw,
\* both started before the delete, have failed.
C28_Witness ==
    /\ nextDoc = 1
    /\ ~db[DocIds[1]].exists
    /\ \E c \in Joiners :
        /\ joinOp[c].stage = "idle"
        /\ joinError[c] = MsgJoinFailed
        /\ joinSuccess[c] = <<>>
    /\ \E c \in Organizers :
        /\ drawOp[c].stage = "idle"
        /\ drawError[c] = MsgDrawFailed
        /\ drawSuccess[c] = <<>>

\* C30: every existing group has its owner among its members and, when it
\* has assignments, every giver and every recipient is a member, no giver
\* is its own recipient and no two givers have the same recipient; no write
\* to an existing group removes an id from memberIds.
C30_Members(data) == {data.memberIds[i] : i \in 1..Len(data.memberIds)}

C30_GroupOK(data) ==
    /\ data.ownerId \in C30_Members(data)
    /\ data.assignments # <<>> =>
           LET assignments == data.assignments[1]
           IN  /\ DOMAIN assignments \subseteq C30_Members(data)
               /\ \A g \in DOMAIN assignments :
                      /\ assignments[g].recipientId \in C30_Members(data)
                      /\ assignments[g].recipientId # g
               /\ \A g, h \in DOMAIN assignments :
                      assignments[g].recipientId = assignments[h].recipientId
                          => g = h

C30_GroupInvariants ==
    /\ [](\A id \in DocIdSet : db[id].exists => C30_GroupOK(db[id]))
    /\ [][\A id \in DocIdSet :
            (db[id].exists /\ db'[id].exists) =>
                C30_Members(db[id]) \subseteq C30_Members(db'[id])]_vars

\* A group of three with assignments among the two who were members when
\* the draw was run.
C30_Witness ==
    \E id \in DocIdSet :
        /\ db[id].exists
        /\ Len(db[id].memberIds) = 3
        /\ db[id].assignments # <<>>
        /\ Cardinality(DOMAIN db[id].assignments[1]) = 2

====
